---- MODULE Spec2Model ----
(***************************************************************************)
(* particle-flight: the flight controller (FlightController, the variant   *)
(* with telemetry) as a state machine.                                     *)
(*                                                                         *)
(* Numbers.  A JS Number is modelled in fixed point: an integer counts     *)
(* units of 10^-8 (U) of the quantity.  Angles are radians, rates radians  *)
(* per second, velocities km/s (so one unit is 10^-5 m/s), accelerations   *)
(* km/s^2, positions units of 10^-4 m, the field of view units of 10^-6    *)
(* degree, angular accelerations units of 10^-6 rad/s^2, and a time step   *)
(* is a whole number of microseconds.  Every product and quotient is       *)
(* rounded to the unit; the library functions of Math and THREE.MathUtils  *)
(* are computed to a few units.  All intermediate values fit 32 bits.      *)
(***************************************************************************)
EXTENDS Integers, Sequences, FiniteSets, TLC

U == 10^8
\* units of velocity per m/s, of position per metre, of angular acceleration
\* per rad/s^2 and of field of view per degree
MPS == 10^5
Metre == 10^4
AccUnit == 10^6
FovUnit == 10^6

Min(a, b) == IF a < b THEN a ELSE b
Max(a, b) == IF a > b THEN a ELSE b
Abs(a) == IF a < 0 THEN -a ELSE a
Sign(a) == IF a > 0 THEN 1 ELSE IF a < 0 THEN -1 ELSE 0

\* a * b / U rounded to the nearest unit, by halves of four digits so that no
\* intermediate product leaves 32 bits
Mul8(a, b) ==
    LET a1 == a \div 10000
        a0 == a % 10000
        b1 == b \div 10000
        b0 == b % 10000
    IN a1 * b1 + ((a1 * b0 + a0 * b1 + ((a0 * b0) \div 10000) + 5000) \div 10000)

\* floor(a * 10^n / b) for a >= 0 and 0 < b, digit by digit
RECURSIVE DivLoop(_, _, _, _)
DivLoop(q, r, b, n) ==
    IF n = 0 THEN q
    ELSE DivLoop(q * 10 + ((r * 10) \div b), (r * 10) % b, b, n - 1)

DivFix(a, b, n) ==
    IF a >= 0 THEN DivLoop(a \div b, a % b, b, n)
    ELSE -DivLoop((-a) \div b, (-a) % b, b, n)

\* a / b in units of U
Div8(a, b) == DivFix(a, b, 8)

\* Math.sqrt: Newton's iteration from a power of two above the root
RECURSIVE SqrtGuess(_, _)
SqrtGuess(n, k) == IF k * k < n THEN SqrtGuess(n, k * 2) ELSE k * 10000

RECURSIVE SqrtIter(_, _)
SqrtIter(n, y) ==
    LET y2 == (y + Div8(n, y)) \div 2
    IN IF y2 >= y THEN y ELSE SqrtIter(n, y2)

Sqrt8(n) == IF n <= 0 THEN 0 ELSE SqrtIter(n, SqrtGuess(n, 1))

\* Math.PI, Math.PI / 2 and Math.LN2
PI == 314159265
HALFPI == 157079633
LN2 == 69314718

\* atan(2^-i), i = 0 .. 27
AtanTable ==
    <<78539816, 46364761, 24497866, 12435499, 6241881, 3123983, 1562373,
      781234, 390623, 195312, 97656, 48828, 24414, 12207, 6104, 3052, 1526,
      763, 381, 191, 95, 48, 24, 12, 6, 3, 1, 1>>

RECURSIVE Cordic(_, _, _, _)
Cordic(x, y, z, i) ==
    IF i = 28 THEN z
    ELSE LET p == 2^i
         IN IF y > 0
            THEN Cordic(x + (y \div p), y - (x \div p), z + AtanTable[i + 1], i + 1)
            ELSE Cordic(x - (y \div p), y + (x \div p), z - AtanTable[i + 1], i + 1)

\* the pair scaled by a power of two so that its larger member is in
\* [2^27, 2^28)
RECURSIVE Prescale(_, _)
Prescale(x, y) ==
    IF Max(x, y) < 2^27 THEN Prescale(x * 2, y * 2)
    ELSE IF Max(x, y) >= 2^28 THEN Prescale(x \div 2, y \div 2)
    ELSE <<x, y>>

AtanPos(y, x) ==
    IF y = 0 THEN 0
    ELSE IF x = 0 THEN HALFPI
    ELSE LET s == Prescale(x, y)
         IN IF s[2] = 0 THEN 0
            ELSE IF s[1] = 0 THEN HALFPI
            ELSE Cordic(s[1], s[2], 0, 0)

\* Math.atan2(y, x)
Atan2(y, x) ==
    IF x = 0 /\ y = 0 THEN 0
    ELSE LET t == AtanPos(Abs(y), Abs(x))
             h == IF x >= 0 THEN t ELSE PI - t
         IN IF y >= 0 THEN h ELSE -h

\* e^-r for 0 <= r < ln 2, the series to the twelfth power by Horner's rule
RECURSIVE ExpNeg(_, _, _)
ExpNeg(r, acc, k) ==
    IF k = 0 THEN acc ELSE ExpNeg(r, U - (Mul8(r, acc) \div k), k - 1)

\* Math.exp(y) for y <= 0
Exp8(y) == ExpNeg((-y) % LN2, U, 12) \div (2^((-y) \div LN2))

\* ln of the mantissa: 2 atanh((m - 1) / (m + 1)) by its series
RECURSIVE AtanhSeries(_, _, _)
AtanhSeries(z2, acc, d) ==
    IF d < 1 THEN acc ELSE AtanhSeries(z2, (U \div d) + Mul8(z2, acc), d - 2)

RECURSIVE LnNorm(_, _)
LnNorm(x, k) ==
    IF x < U \div 2 THEN LnNorm(x * 2, k + 1)
    ELSE LET z == Div8(x - U, x + U)
         IN 2 * Mul8(z, AtanhSeries(Mul8(z, z), U \div 17, 15)) - k * LN2

\* Math.log(x) for 0 < x <= 1
Ln8(x) == LnNorm(x, 0)

\* Math.pow(x, e) for 0 <= x <= 1
Pow8(x, e) == IF x = 0 THEN 0 ELSE Exp8(Mul8(e, Ln8(x)))

\* Math.sin and Math.cos of a small angle, the series by Horner's rule
Sin8(x) ==
    LET x2 == Mul8(x, x)
        a1 == U - (x2 \div 72)
        a2 == U - (Mul8(x2, a1) \div 42)
        a3 == U - (Mul8(x2, a2) \div 20)
        a4 == U - (Mul8(x2, a3) \div 6)
    IN Mul8(x, a4)

Cos8(x) ==
    LET x2 == Mul8(x, x)
        a1 == U - (x2 \div 90)
        a2 == U - (Mul8(x2, a1) \div 56)
        a3 == U - (Mul8(x2, a2) \div 30)
        a4 == U - (Mul8(x2, a3) \div 12)
    IN U - (Mul8(x2, a4) \div 2)

\* THREE.MathUtils
clamp(value, lo, hi) == Max(lo, Min(hi, value))
lerp(x, y, t) == Mul8(U - t, x) + Mul8(t, y)
degToRad(d) == d * 1745329 + ((d * 252) \div 1000)

\* damp(value, target, lambda, dt) with dt in microseconds
damp(value, target, lambda, dt) == lerp(value, target, U - Exp8(-(lambda * dt * 100)))

(***************************************************************************)
(* THREE.Vector3 and THREE.Quaternion                                      *)
(***************************************************************************)
Vec(x, y, z) == [x |-> x, y |-> y, z |-> z]
Quat(x, y, z, w) == [x |-> x, y |-> y, z |-> z, w |-> w]

add(a, b) == Vec(a.x + b.x, a.y + b.y, a.z + b.z)
sub(a, b) == Vec(a.x - b.x, a.y - b.y, a.z - b.z)
multiplyScalar(v, s) == Vec(Mul8(v.x, s), Mul8(v.y, s), Mul8(v.z, s))
addScaledVector(a, v, s) == add(a, multiplyScalar(v, s))
dot(a, b) == Mul8(a.x, b.x) + Mul8(a.y, b.y) + Mul8(a.z, b.z)
lengthSq(v) == dot(v, v)
length(v) == Sqrt8(lengthSq(v))

\* divideScalar(length() || 1): the components over the length, or over 1
\* when the length is 0
normalize(v) ==
    LET l == length(v)
        d == IF l = 0 THEN MPS ELSE l
    IN Vec(Div8(v.x, d), Div8(v.y, d), Div8(v.z, d))

\* normalize().multiplyScalar(l)
setLength(v, l) == multiplyScalar(normalize(v), l)

\* Quaternion.multiply: the Hamilton product a * b
multiply(a, b) ==
    Quat(Mul8(a.x, b.w) + Mul8(a.w, b.x) + Mul8(a.y, b.z) - Mul8(a.z, b.y),
         Mul8(a.y, b.w) + Mul8(a.w, b.y) + Mul8(a.z, b.x) - Mul8(a.x, b.z),
         Mul8(a.z, b.w) + Mul8(a.w, b.z) + Mul8(a.x, b.y) - Mul8(a.y, b.x),
         Mul8(a.w, b.w) - Mul8(a.x, b.x) - Mul8(a.y, b.y) - Mul8(a.z, b.z))

\* Quaternion.invert: the conjugate
invert(q) == Quat(-q.x, -q.y, -q.z, q.w)

\* Quaternion.setFromAxisAngle(axis, angle), the axis taken as normalized
setFromAxisAngle(axis, angle) ==
    LET s == Sin8(angle \div 2)
    IN Quat(Mul8(axis.x, s), Mul8(axis.y, s), Mul8(axis.z, s), Cos8(angle \div 2))

\* Vector3.applyQuaternion: v + w t + q x t with t = 2 q x v
applyQuaternion(v, q) ==
    LET tx == 2 * (Mul8(q.y, v.z) - Mul8(q.z, v.y))
        ty == 2 * (Mul8(q.z, v.x) - Mul8(q.x, v.z))
        tz == 2 * (Mul8(q.x, v.y) - Mul8(q.y, v.x))
    IN Vec(v.x + Mul8(q.w, tx) + Mul8(q.y, tz) - Mul8(q.z, ty),
           v.y + Mul8(q.w, ty) + Mul8(q.z, tx) - Mul8(q.x, tz),
           v.z + Mul8(q.w, tz) + Mul8(q.x, ty) - Mul8(q.y, tx))

\* Euler.setFromQuaternion(q, 'YXZ'), through the rotation matrix
setFromQuaternion(q) ==
    LET x2 == q.x + q.x
        y2 == q.y + q.y
        z2 == q.z + q.z
        xx == Mul8(q.x, x2)
        xy == Mul8(q.x, y2)
        xz == Mul8(q.x, z2)
        yy == Mul8(q.y, y2)
        yz == Mul8(q.y, z2)
        zz == Mul8(q.z, z2)
        wx == Mul8(q.w, x2)
        wy == Mul8(q.w, y2)
        wz == Mul8(q.w, z2)
        m23 == yz - wx
        s == -clamp(m23, -U, U)
        ex == Atan2(s, Sqrt8(U - Mul8(s, s)))
    IN IF Abs(m23) < 99999990
       THEN Vec(ex, Atan2(xz + wy, U - (xx + yy)), Atan2(xy + wz, U - (xx + zz)))
       ELSE Vec(ex, Atan2(-(xz - wy), U - (yy + zz)), 0)

(***************************************************************************)
(* The constants the constructor sets                                      *)
(***************************************************************************)
minSpeed == 70
cruiseSpeed == 260
afterburnerSpeed == 470

\* 0.0022 stick per pixel
mouseSensitivity == 220000
stickReturn == 7
\* 0.35
inputExpo == 35000000

maxPitchRate == degToRad(220)
maxRollRate == degToRad(300)
maxYawRate == degToRad(120)

\* the gains of the rate controller and of the stability terms turn a rate
\* or an angle into an angular acceleration: 7.5, 9.0, 5.5, 2.6, 2.2, 2.0,
\* 0.9, 1.8, 2.8, 2.4 and 14.0 in units of AccUnit
pitchResponse == 7500000
rollResponse == 9000000
yawResponse == 5500000
rollStability == 2600000
alphaStability == 2200000
betaStability == 2000000
rollToYaw == 900000
yawDamping == 1800000
pitchDamping == 2800000
rollDamping == 2400000
\* 1.6
flightPathHoldGain == 160000000
flightPathHoldMax == degToRad(10)
aoaLimit == degToRad(18)
aoaLimiterGain == 14000000

\* 9.81 m/s^2
gravity == 981000
\* 0.0010, 0.00125 and 0.0007 per (m/s)^2
liftScalar == 100000
dragScalar == 125000
sideScalar == 70000
\* 0.2, 4.8, 1.5, 0.02, 0.3, 0.12
cl0 == 20000000
clAlpha == 480000000
clMax == 150000000
cd0 == 2000000
cdAlpha == 30000000
cdInduced == 12000000
stallAoA == degToRad(18)
stallFade == degToRad(12)
\* 0.7, 0.8, 1.0
stallDrag == 70000000
cyBeta == 80000000
cyMax == 100000000

\* 0.55 per second is 55 units per microsecond; 2.0, 15.0 and 12.0 m/s^2
throttleRate == 55
idleThrust == 200000
maxThrust == 1500000
afterburnerThrust == 1200000
\* 0.28 and 0.18 per second
afterburnerBurnRate == 28
afterburnerRegenRate == 18
\* 0.35
velocityAlign == 35000000
cameraLag == 6
\* the literals of update(): the deadzone 0.02, the afterburner threshold
\* 0.02, the cap 0.05 s of a step, the squared length 0.0001 below which a
\* direction is not normalized, and the two fields of view
deadzone == 2000000
fuelThreshold == 2000000
maxStep == 50000
minDirSq == 10000
boostFov == 82
baseFov == 75

(***************************************************************************)
(* update(delta), phase by phase.  f is the controller (this), q the       *)
(* airplane's quaternion, dt the step in microseconds.                     *)
(***************************************************************************)

\* a stick that stays where the pointer left it
RecenterStick_none(f, dt) == f

\* Re-center virtual stick
RecenterStick(f, dt) ==
    [f EXCEPT !.stickX = damp(f.stickX, 0, stickReturn, dt),
              !.stickY = damp(f.stickY, 0, stickReturn, dt)]

\* deadzone, then sign(x) * |x|^(1 + inputExpo)
Shaped(stick) ==
    LET input == IF Abs(stick) < deadzone THEN 0 ELSE stick
    IN Sign(input) * Pow8(Abs(input), U + inputExpo)

\* the body axes in the world frame
Axes(q) ==
    [right |-> applyQuaternion(Vec(U, 0, 0), q),
     up |-> applyQuaternion(Vec(0, U, 0), q),
     forward |-> applyQuaternion(Vec(0, 0, -U), q)]

\* the velocity in the body frame, and the angles of attack and of sideslip
LocalVelocity(v, q) == applyQuaternion(v, invert(q))
AoA(v, q) == LET l == LocalVelocity(v, q) IN Atan2(-l.y, -l.z)
Beta(v, q) == LET l == LocalVelocity(v, q) IN Atan2(l.x, -l.z)

Authority(v) == clamp(Div8(length(v), cruiseSpeed * MPS), 35000000, 140000000)

\* a pitch command that the angle of attack does not limit
LimitPitchCommand_unlimited(desired, aoa) == desired

\* the pitch rate the stick asks for, one-sided once the angle of attack
\* is beyond the limit
LimitPitchCommand(desired, aoa) ==
    LET d1 == IF aoa > aoaLimit THEN Min(desired, 0) ELSE desired
    IN IF aoa < -aoaLimit THEN Max(d1, 0) ELSE d1

\* Rate command control, stability derivatives, coordinated yaw, flight
\* path hold and AoA limiter: the angular accelerations, from the state at
\* the start of the step
ControlLaw(f, q) ==
    LET rollShaped == Shaped(f.stickX)
        pitchShaped == Shaped(f.stickY)
        aoa == AoA(f.velocity, q)
        beta == Beta(f.velocity, q)
        authority == Authority(f.velocity)
        desiredRollRate == Mul8(Mul8(rollShaped, maxRollRate), authority)
        desiredPitchRate ==
            LimitPitchCommand(Mul8(Mul8(pitchShaped, maxPitchRate), authority), aoa)
        desiredYawRate == Mul8(f.yawInput * maxYawRate, authority)
        horizSpeed ==
            Max(Sqrt8(Mul8(f.velocity.x, f.velocity.x) + Mul8(f.velocity.z, f.velocity.z)),
                MPS)
        flightPathAngle == Atan2(f.velocity.y, horizSpeed)
        holdBlend == clamp(U - Mul8(Abs(pitchShaped), 160000000), 0, U)
        holdCorrection ==
            clamp(-Mul8(flightPathAngle, flightPathHoldGain),
                  -flightPathHoldMax, flightPathHoldMax)
        limiter ==
            IF aoa > aoaLimit THEN Mul8(aoaLimit - aoa, aoaLimiterGain)
            ELSE IF aoa < -aoaLimit THEN Mul8((-aoaLimit) - aoa, aoaLimiterGain)
            ELSE 0
    IN [aoa |-> aoa, beta |-> beta, authority |-> authority,
        desiredRollRate |-> desiredRollRate,
        desiredPitchRate |-> desiredPitchRate,
        desiredYawRate |-> desiredYawRate,
        rollAccel |->
            Mul8(desiredRollRate - f.rollRate, rollResponse)
            - Mul8(f.roll, rollStability) - Mul8(f.rollRate, rollDamping),
        pitchAccel |->
            Mul8(desiredPitchRate - f.pitchRate, pitchResponse)
            - Mul8(aoa, alphaStability) - Mul8(f.pitchRate, pitchDamping)
            + (Mul8(holdCorrection, holdBlend) \div 100) + limiter,
        yawAccel |->
            Mul8(desiredYawRate - f.yawRate, yawResponse)
            - Mul8(beta, betaStability) - Mul8(f.yawRate, yawDamping)
            + Mul8(Mul8(f.rollRate, rollToYaw), authority)]

\* an integration of the rates that leaves them as integrated
RateLimit_none(rate, limit) == rate

\* rate + accel * dt, then the clamp to the rate limit
RateLimit(rate, limit) == clamp(rate, -limit, limit)
IntegrateRate(rate, accel, limit, dt) ==
    RateLimit(rate + Mul8(accel, dt * 10000), limit)

\* Integrate angular rates
IntegrateRates(f, law, dt) ==
    [f EXCEPT !.rollRate = IntegrateRate(f.rollRate, law.rollAccel, maxRollRate, dt),
              !.pitchRate = IntegrateRate(f.pitchRate, law.pitchAccel, maxPitchRate, dt),
              !.yawRate = IntegrateRate(f.yawRate, law.yawAccel, maxYawRate, dt)]

\* one incremental rotation: the quaternion times the rotation by rate * dt
\* about the axis, none when the rate is 0
Rotate(q, axis, rate, dt) ==
    IF rate # 0 THEN multiply(q, setFromAxisAngle(axis, Mul8(rate, dt * 100))) ELSE q

\* Update orientation: pitch about right, roll about forward, yaw about up,
\* the axes being those of the start of the step
Orient(q, axes, f, dt) ==
    Rotate(Rotate(Rotate(q, axes.right, f.pitchRate, dt),
                  axes.forward, f.rollRate, dt),
           axes.up, f.yawRate, dt)

\* Extract angles for HUD
HudAngles(f, q) ==
    LET e == setFromQuaternion(q)
    IN [f EXCEPT !.pitch = e.x, !.yaw = e.y, !.roll = e.z]

\* an afterburner whose tank is not bounded: the fuel burns and regenerates
\* without Math.max(0, ...) and Math.min(1, ...)
Afterburner_unclamped(f, dt) ==
    LET wantsAfterburner == f.boost /\ f.afterburnerFuel > fuelThreshold
    IN [f EXCEPT
          !.afterburnerActive = wantsAfterburner,
          !.afterburnerFuel =
              IF wantsAfterburner
              THEN f.afterburnerFuel - afterburnerBurnRate * dt
              ELSE f.afterburnerFuel + afterburnerRegenRate * dt]

\* an afterburner with memory: once lit it stays lit while any fuel is left
Afterburner_latched(f, dt) ==
    LET wantsAfterburner ==
            f.boost /\ (f.afterburnerFuel > fuelThreshold
                        \/ (f.afterburnerActive /\ f.afterburnerFuel > 0))
    IN [f EXCEPT
          !.afterburnerActive = wantsAfterburner,
          !.afterburnerFuel =
              IF wantsAfterburner
              THEN Max(0, f.afterburnerFuel - afterburnerBurnRate * dt)
              ELSE Min(U, f.afterburnerFuel + afterburnerRegenRate * dt)]

\* Afterburner
Afterburner(f, dt) ==
    LET wantsAfterburner == f.boost /\ f.afterburnerFuel > fuelThreshold
    IN [f EXCEPT
          !.afterburnerActive = wantsAfterburner,
          !.afterburnerFuel =
              IF wantsAfterburner
              THEN Max(0, f.afterburnerFuel - afterburnerBurnRate * dt)
              ELSE Min(U, f.afterburnerFuel + afterburnerRegenRate * dt)]

\* a throttle lever without stops: the ramp without the clamp to [0, 1]
ThrottleRamp_unclamped(f, dt) ==
    [f EXCEPT !.throttleSetting = f.throttleSetting + Sign(f.throttle) * throttleRate * dt]

\* throttle
ThrottleRamp(f, dt) ==
    IF f.throttle > 0
    THEN [f EXCEPT !.throttleSetting = clamp(f.throttleSetting + throttleRate * dt, 0, U)]
    ELSE IF f.throttle < 0
    THEN [f EXCEPT !.throttleSetting = clamp(f.throttleSetting - throttleRate * dt, 0, U)]
    ELSE f

\* the thrust of the step
Thrust(f) ==
    lerp(idleThrust, maxThrust, f.throttleSetting)
    + (IF f.afterburnerActive THEN afterburnerThrust ELSE 0)

\* the part of the axis across the velocity, normalized unless tiny
AcrossVelocity(axis, velDir) ==
    LET d == addScaledVector(axis, velDir, -dot(axis, velDir))
    IN IF lengthSq(d) > minDirSq THEN normalize(d) ELSE d

\* Aerodynamic forces, thrust, alignment helper and gravity: the
\* coefficients and the acceleration, from the velocity v, the quaternion q
\* and the throttle and afterburner of f
Aero(f, v, q, authority) ==
    LET axes == Axes(q)
        newSpeed == Max(length(v), MPS)
        qq == Mul8(newSpeed, newSpeed)
        aoaNow == AoA(v, q)
        betaNow == Beta(v, q)
        aoaAbs == Abs(aoaNow)
        stallT == clamp(Div8(aoaAbs - stallAoA, stallFade), 0, U)
        clLin == clamp(cl0 + Mul8(clAlpha, aoaNow), -clMax, clMax)
        cl == lerp(clLin, Mul8(clLin, 35000000), stallT)
        cd == cd0 + Mul8(cdAlpha, aoaAbs) + Mul8(Mul8(cdInduced, cl), cl)
              + Mul8(stallT, stallDrag)
        cy == clamp(Mul8(betaNow, cyBeta), -cyMax, cyMax)
        velDir == normalize(v)
        liftDir == AcrossVelocity(axes.up, velDir)
        sideDir == AcrossVelocity(axes.right, velDir)
        liftAccel == Mul8(Mul8(liftScalar * 1000, qq), cl)
        dragAccel == Mul8(Mul8(dragScalar * 1000, qq), cd)
        sideAccel == Mul8(Mul8(sideScalar * 1000, qq), cy)
        thrust == Thrust(f)
        a1 == addScaledVector(Vec(0, 0, 0), liftDir, liftAccel)
        a2 == addScaledVector(a1, velDir, -dragAccel)
        a3 == addScaledVector(a2, sideDir, sideAccel)
        a4 == addScaledVector(a3, axes.forward, thrust)
        a5 == addScaledVector(a4, sub(multiplyScalar(axes.forward, newSpeed), v),
                              Mul8(velocityAlign, authority))
    IN [axes |-> axes, aoa |-> aoaNow, beta |-> betaNow, stall |-> stallT,
        cl |-> cl, cd |-> cd, cy |-> cy, lift |-> liftAccel, drag |-> dragAccel,
        side |-> sideAccel, thrust |-> thrust,
        accel |-> Vec(a5.x, a5.y - gravity, a5.z)]

\* a clamp of the speed from above only
ClampSpeed_topOnly(v) ==
    LET top == Mul8(afterburnerSpeed * MPS, 110000000)
    IN IF length(v) > top THEN setLength(v, top) ELSE v

\* the clamp of the speed to [minSpeed, afterburnerSpeed * 1.1]; both tests
\* read the length measured before either
ClampSpeed(v) ==
    LET clampedSpeed == length(v)
        top == Mul8(afterburnerSpeed * MPS, 110000000)
        v1 == IF clampedSpeed < minSpeed * MPS THEN setLength(v, minSpeed * MPS) ELSE v
    IN IF clampedSpeed > top THEN setLength(v1, top) ELSE v1

\* Integrate velocity: v + accel * dt, then the clamp of the speed
Accelerated(v, accel, dt) == addScaledVector(v, accel, dt * 100)
IntegrateVelocity(v, accel, dt) == ClampSpeed(Accelerated(v, accel, dt))

\* Integrate position
IntegratePosition(p, v, dt) ==
    Vec(p.x + (Mul8(v.x, dt * 100) \div 10),
        p.y + (Mul8(v.y, dt * 100) \div 10),
        p.z + (Mul8(v.z, dt * 100) \div 10))

\* a G-force estimate that is smoothed as measured, without the clamp
GForceClamped_raw(v, prev, up, dt) ==
    LET specificForce ==
            Vec(DivFix(v.x - prev.x, dt, 6),
                DivFix(v.y - prev.y, dt, 6) + gravity,
                DivFix(v.z - prev.z, dt, 6))
    IN Div8(dot(specificForce, up), gravity)

\* G-force estimate: the specific force along up in units of gravity, clamped
\* to [-2, 9] (the clamp is taken before the division by gravity)
GForceClamped(v, prev, up, dt) ==
    LET specificForce ==
            Vec(DivFix(v.x - prev.x, dt, 6),
                DivFix(v.y - prev.y, dt, 6) + gravity,
                DivFix(v.z - prev.z, dt, 6))
    IN Div8(clamp(dot(specificForce, up), -2 * gravity, 9 * gravity), gravity)

\* Telemetry
Telemetry(f, aero, authority) ==
    [speed |-> f.speed, throttle |-> f.throttleSetting, thrust |-> aero.thrust,
     aoa |-> aero.aoa, beta |-> aero.beta, gForce |-> f.gForceSmoothed,
     cl |-> aero.cl, cd |-> aero.cd, cy |-> aero.cy, lift |-> aero.lift,
     drag |-> aero.drag, side |-> aero.side, stall |-> aero.stall,
     authority |-> authority, pitchRate |-> f.pitchRate,
     rollRate |-> f.rollRate, yawRate |-> f.yawRate]

\* the camera offset and target of a framing mode, relative to the airplane
CameraOffset(mode, axes) ==
    IF mode = 0
    THEN addScaledVector(addScaledVector(multiplyScalar(axes.forward, -38 * Metre),
                                         axes.up, 12 * Metre),
                         axes.right, 2 * Metre)
    ELSE IF mode = 1
    THEN addScaledVector(multiplyScalar(axes.forward, 18000), axes.up, 12000)
    ELSE addScaledVector(addScaledVector(multiplyScalar(axes.right, 18 * Metre),
                                         axes.up, 6 * Metre),
                         axes.forward, -6 * Metre)

CameraAhead(mode) == IF mode = 0 THEN 40 ELSE IF mode = 1 THEN 120 ELSE 30

\* dampVector(current, target, lambda, dt)
dampVector(current, target, lambda, dt) ==
    add(current, multiplyScalar(sub(target, current), U - Exp8(-(lambda * dt * 100))))

\* a camera whose field of view follows the boost key, not the afterburner
updateCamera_boostKey(s, dt) ==
    LET axes == s.aero.axes
        position == s.airplane.position
        offset == add(CameraOffset(s.fc.cameraMode, axes), position)
        targetFov == IF s.fc.boost THEN boostFov ELSE baseFov
    IN [s EXCEPT
          !.fc.cameraOffset = offset,
          !.fc.cameraTarget =
              addScaledVector(position, axes.forward,
                              CameraAhead(s.fc.cameraMode) * Metre),
          !.camera.position = dampVector(@, offset, cameraLag, dt),
          !.camera.fov = damp(@, targetFov * FovUnit, 4, dt)]

\* updateCamera(dt): the position damped toward the offset, the field of
\* view damped toward its target (the orientation of the camera, set by
\* lookAt or slerp, is not modelled)
updateCamera(s, dt) ==
    LET axes == s.aero.axes
        position == s.airplane.position
        offset == add(CameraOffset(s.fc.cameraMode, axes), position)
        targetFov == IF s.fc.afterburnerActive THEN boostFov ELSE baseFov
    IN [s EXCEPT
          !.fc.cameraOffset = offset,
          !.fc.cameraTarget =
              addScaledVector(position, axes.forward,
                              CameraAhead(s.fc.cameraMode) * Metre),
          !.camera.position = dampVector(@, offset, cameraLag, dt),
          !.camera.fov = damp(@, targetFov * FovUnit, 4, dt)]

(***************************************************************************)
(* update(delta) as the sequence of its statements.  s is what a step      *)
(* works on: the controller (fc), the airplane, the camera, and the locals *)
(* of update() that later statements read (axes, law, aero).               *)
(***************************************************************************)
StickPhase(s, dt) == [s EXCEPT !.fc = RecenterStick(@, dt)]

CommandPhase(s) ==
    s @@ [axes |-> Axes(s.airplane.quaternion),
          law |-> ControlLaw(s.fc, s.airplane.quaternion)]

RatePhase(s, dt) == [s EXCEPT !.fc = IntegrateRates(@, s.law, dt)]

OrientPhase(s, dt) ==
    [s EXCEPT !.airplane.quaternion = Orient(@, s.axes, s.fc, dt)]

HudPhase(s) == [s EXCEPT !.fc = HudAngles(@, s.airplane.quaternion)]

EnginePhase(s, dt) == [s EXCEPT !.fc = ThrottleRamp(Afterburner(@, dt), dt)]

AeroPhase(s) ==
    s @@ [aero |-> Aero(s.fc, s.fc.velocity, s.airplane.quaternion, s.law.authority)]

VelocityPhase(s, dt) ==
    [s EXCEPT !.fc.velocity = IntegrateVelocity(@, s.aero.accel, dt)]

PositionPhase(s, dt) ==
    [s EXCEPT !.fc.speed = length(s.fc.velocity),
              !.airplane.position = IntegratePosition(@, s.fc.velocity, dt)]

GForcePhase(s, dt) ==
    [s EXCEPT !.fc.gForceSmoothed =
                  damp(@, GForceClamped(s.fc.velocity, s.fc.prevVelocity,
                                        s.aero.axes.up, dt), 6, dt),
              !.fc.prevVelocity = s.fc.velocity]

TelemetryPhase(s) ==
    [s EXCEPT !.fc.telemetry = Telemetry(s.fc, s.aero, s.law.authority)]

\* the first statements of update(): the stick, the control law and the
\* integration of the angular rates
Rates(f0, plane, cam, dt) ==
    RatePhase(CommandPhase(StickPhase([fc |-> f0, airplane |-> plane, camera |-> cam],
                                      dt)),
              dt)

\* then the orientation, the HUD angles, the afterburner and the throttle,
\* and the forces
Forces(f0, plane, cam, dt) ==
    AeroPhase(EnginePhase(HudPhase(OrientPhase(Rates(f0, plane, cam, dt), dt)), dt))

\* then the velocity, the position, the G-force, the telemetry, the camera
Integrate(s, dt) ==
    updateCamera(
      TelemetryPhase(GForcePhase(PositionPhase(VelocityPhase(s, dt), dt), dt)), dt)

\* two other orders of the statements: the forces taken before the
\* orientation is rotated, and the forces taken before the afterburner and
\* the throttle are updated
Step_forcesBeforeOrient(f0, plane, cam, dt) ==
    Integrate(EnginePhase(HudPhase(OrientPhase(AeroPhase(Rates(f0, plane, cam, dt)),
                                               dt)),
                          dt),
              dt)

Step_forcesBeforeEngine(f0, plane, cam, dt) ==
    Integrate(EnginePhase(AeroPhase(HudPhase(OrientPhase(Rates(f0, plane, cam, dt),
                                                         dt))),
                          dt),
              dt)

\* the whole of an executed update: the controller, the airplane and the
\* camera after a step of dt microseconds
Step(f0, plane, cam, dt) == Integrate(Forces(f0, plane, cam, dt), dt)

(***************************************************************************)
(* terrain.js: the noise tables and the height of the terrain.             *)
(*                                                                         *)
(* A noise coordinate is an integer of units of 10^-6 (Micro), a noise     *)
(* value an integer of units of 10^-8 (U), a height an integer of units of *)
(* 10^-4 m.  A seed is a whole number of 1/65536: n = seed * 256 then has  *)
(* at most eight binary places, n * 16807 is below 2^45, and every value   *)
(* of n of the constructor is exact in an IEEE double, as it is here.      *)
(***************************************************************************)
Micro == 10^6
SeedUnit == 65536

TERRAIN_SIZE == 1000
PARTICLE_COUNT == 150000

\* 2147483647 = lcgA * lcgQ + lcgR
lcgA == 16807
lcgM == 2147483647
lcgQ == 127773
lcgR == 2836

\* n as whole + frac / 256, 0 <= frac < 256
Lcg(whole, frac) == [whole |-> whole, frac |-> frac]

\* (whole * 16807) % 2147483647 within 32 bits
LcgWhole(whole) ==
    IF lcgA * (whole % lcgQ) >= lcgR * (whole \div lcgQ)
    THEN lcgA * (whole % lcgQ) - lcgR * (whole \div lcgQ)
    ELSE lcgA * (whole % lcgQ) - lcgR * (whole \div lcgQ) + lcgM

\* (a + carry) % 2147483647 for a below the modulus
LcgCarry(a, carry) == IF a >= lcgM - carry THEN a - (lcgM - carry) ELSE a + carry

\* n = (n * 16807) % 2147483647 on Numbers
LcgNext(n) ==
    Lcg(LcgCarry(LcgWhole(n.whole), (n.frac * lcgA) \div 256), (n.frac * lcgA) % 256)

\* [this.p[i], this.p[j]] = [this.p[j], this.p[i]] with j = n % (i + 1).  On a
\* Uint8Array an index that is no integer reads undefined and its write is
\* dropped; undefined is stored as 0.
Swap(p, i, n) ==
    IF n.frac = 0
    THEN [p EXCEPT ![i] = p[n.whole % (i + 1)], ![n.whole % (i + 1)] = p[i]]
    ELSE [p EXCEPT ![i] = 0]

\* one iteration of the loop of the constructor on the table and n
Iteration(s, i) == [p |-> Swap(s.p, i, LcgNext(s.n)), n |-> LcgNext(s.n)]

\* the table is a Uint8Array of 256 elements and n a Number of at most eight
\* binary places (testing it here also makes TLC evaluate the state of the
\* loop at every iteration, not all of them at the end)
IsLoopState(s) == DOMAIN s.p = 0 .. 255 /\ s.n.frac \in 0 .. 255

\* the iterations hi, hi - 1, .. lo of the loop, on the table and n before
\* them: the upper half of them, then the lower half
RECURSIVE Iterations(_, _, _)
Iterations(s, hi, lo) ==
    IF ~IsLoopState(s) THEN s
    ELSE IF hi = lo THEN Iteration(s, hi)
    ELSE Iterations(Iterations(s, hi, (hi + lo) \div 2 + 1), (hi + lo) \div 2, lo)

Shuffle(seed) ==
    Iterations([p |-> [k \in 0 .. 255 |-> k], n |-> Lcg(seed \div 256, seed % 256)],
               255, 1)

Duplicate(p) == [p |-> p, perm |-> [i \in 0 .. 511 |-> p[i % 256]]]

\* new SimplexNoise(seed), seed in units of 1/65536
SimplexNoise(seed) == Duplicate(Shuffle(seed).p)

F2 == 36602540
G2 == 21132487

grad(hash, x, y) ==
    (IF (hash % 8) % 2 = 1
     THEN -(IF hash % 8 < 4 THEN x ELSE y)
     ELSE (IF hash % 8 < 4 THEN x ELSE y))
    + (IF ((hash % 8) \div 2) % 2 = 1
       THEN -2 * (IF hash % 8 < 4 THEN y ELSE x)
       ELSE 2 * (IF hash % 8 < 4 THEN y ELSE x))

Sq(a) == Mul8(a, a)

\* one corner: t = 0.5 - x^2 - y^2, t^4 * grad if t >= 0 (x, y in units of U)
Falloff(x, y) == U \div 2 - Sq(x) - Sq(y)
Corner(hash, x, y) ==
    IF Falloff(x, y) >= 0 THEN Mul8(Sq(Sq(Falloff(x, y))), grad(hash, x, y)) ELSE 0

\* this.perm[a + this.perm[b]] as grad reads it.  A read past the end of a
\* typed array gives undefined, a + undefined is NaN, a read at NaN gives
\* undefined too, and grad takes undefined & 7, which is 0.
Hash(perm, a, b) ==
    IF b \notin DOMAIN perm THEN 0
    ELSE IF a + perm[b] \notin DOMAIN perm THEN 0
    ELSE perm[a + perm[b]]

\* the three corners of the simplex of cell (i, j); x0, y0 in units of U
Corners(perm, ii, jj, x0, y0, i1) ==
    70 * (Corner(Hash(perm, ii, jj), x0, y0)
          + Corner(Hash(perm, ii + i1, jj + (1 - i1)),
                   x0 - i1 * U + G2, y0 - (1 - i1) * U + G2)
          + Corner(Hash(perm, ii + 1, jj + 1), x0 - U + 2 * G2, y0 - U + 2 * G2))

Skew(x, y) == Mul8(x + y, F2)

\* t = (i + j) * G2 in units of Micro, for a whole number k = i + j
Unskew(k) == k * (G2 \div 100) + (k * (G2 % 100)) \div 100

\* the offset of a coordinate from the unskewed corner of its cell: x - (i - t),
\* taken as (x + s - i) - s + t, where x + s - i is the fraction of x + s
Offset(x, s, t) == ((x + s) % Micro) - s + t

\* i & 511: the mask as wide as the doubled table
Masked_wide(i) == i % 512

\* i & 255 (the low eight bits of the two's complement of i)
Masked(i) == i % 256

Cell(perm, i, j, x0, y0) ==
    Corners(perm, Masked(i), Masked(j), 100 * x0, 100 * y0, IF x0 > y0 THEN 1 ELSE 0)

Simplex(perm, x, y, s, i, j) ==
    Cell(perm, i, j, Offset(x, s, Unskew(i + j)), Offset(y, s, Unskew(i + j)))

Skewed(perm, x, y, s) == Simplex(perm, x, y, s, (x + s) \div Micro, (y + s) \div Micro)

noise2D(perm, x, y) == Skewed(perm, x, y, Skew(x, y))

\* the loop of fbm: amplitude in units of U, frequency a power of two
RECURSIVE Octaves(_, _, _, _, _, _, _)
Octaves(perm, x, y, n, value, amplitude, frequency) ==
    IF n = 0 THEN value
    ELSE Octaves(perm, x, y, n - 1,
                 value + Mul8(amplitude, noise2D(perm, x * frequency, y * frequency)),
                 amplitude \div 2, frequency * 2)

RECURSIVE maxValue(_, _)
maxValue(n, amplitude) ==
    IF n = 0 THEN 0 ELSE amplitude + maxValue(n - 1, amplitude \div 2)

fbm(perm, x, y, octaves) ==
    Div8(Octaves(perm, x, y, octaves, 0, U, 1), maxValue(octaves, U))

\* getTerrainHeight(x, z): x, z and the height in units of 10^-4 m.  x * 0.002
\* is x / 5 units of Micro, x * 0.001 is x / 10; height * 80 is fbm / 125
\* units of height, |noise| * 40 is |noise| / 250.
getTerrainHeight(perm, x, z) ==
    fbm(perm, x \div 5, z \div 5, 6) \div 125
    + Abs(noise2D(perm, x \div 10, z \div 10)) \div 250

(***************************************************************************)
(* The particles of the terrain.  A position is kept in units of 10^-4 m   *)
(* (the arrays are Float32Arrays: about seven digits).  Of the 150000      *)
(* particles MaxParticle are followed, spread evenly over the indices.     *)
(* The sizes (random, read by no code after createTerrain) are left out.   *)
(***************************************************************************)
MaxParticle == 3

ParticleIndex(k) == ((k - 1) * (PARTICLE_COUNT - 1)) \div (MaxParticle - 1)

\* Math.sqrt(PARTICLE_COUNT) in units of 10^-4
gridSize == 3872983
\* TERRAIN_SIZE / gridSize in units of Micro, TERRAIN_SIZE / 2 in units of 10^-4 m
spacing == DivFix(TERRAIN_SIZE * Metre, gridSize, 6)
halfTerrain == (TERRAIN_SIZE * Metre) \div 2

\* (a * 10^n) % b for a >= 0 and 0 < b, digit by digit
RECURSIVE ModLoop(_, _, _)
ModLoop(r, b, n) == IF n = 0 THEN r ELSE ModLoop((r * 10) % b, b, n - 1)

\* the % of JS on Numbers, the sign of the dividend: d metres % spacing
Remainder(d) ==
    IF d >= 0 THEN ModLoop(d % spacing, spacing, 2) \div 100
    ELSE -(ModLoop((-d) % spacing, spacing, 2) \div 100)

\* Math.max(0, Math.min(1, (y + 40) / 120))
HeightNorm(y) == Max(0, Min(U, Div8(y + 40 * Metre, 120 * Metre)))

\* the entries of a particle at (x, z)
Particle(perm, x, z) ==
    [x |-> x, y |-> getTerrainHeight(perm, x, z), z |-> z,
     heightNorm |-> HeightNorm(getTerrainHeight(perm, x, z))]

\* (ix - gridSize / 2) * spacing for ix in units of 10^-4
GridCoordinate(ix) == Mul8(ix - gridSize \div 2, spacing * 100)

\* createTerrain(scene): particle i at column i % gridSize, row
\* Math.floor(i / gridSize)
GridParticle(perm, i) ==
    Particle(perm, GridCoordinate((i * Metre) % gridSize),
             GridCoordinate(((i * Metre) \div gridSize) * Metre))

createTerrain(perm) == [k \in 1 .. MaxParticle |-> GridParticle(perm, ParticleIndex(k))]

\* a wrap that moves the particle by one length of the terrain
WrapX_shift(perm, q, dx, playerPos) ==
    IF Abs(dx) > halfTerrain
    THEN Particle(perm, q.x - Sign(dx) * TERRAIN_SIZE * Metre, q.z)
    ELSE q

\* updateTerrain(terrain, playerPos): a particle more than half the terrain
\* from the player along x wraps to the other side, then the same along z
\* (dz taken before the wrap along x)
WrapX(perm, q, dx, playerPos) ==
    IF Abs(dx) > halfTerrain
    THEN Particle(perm, playerPos.x - Sign(dx) * halfTerrain + Remainder(dx), q.z)
    ELSE q

WrapZ(perm, q, dz, playerPos) ==
    IF Abs(dz) > halfTerrain
    THEN Particle(perm, q.x, playerPos.z - Sign(dz) * halfTerrain + Remainder(dz))
    ELSE q

Wrap(perm, q, playerPos) ==
    WrapZ(perm, WrapX(perm, q, q.x - playerPos.x, playerPos), q.z - playerPos.z, playerPos)

Wrapped(perm, particles, playerPos) ==
    [k \in DOMAIN particles |-> Wrap(perm, particles[k], playerPos)]

\* needsUpdate: some particle took one of the two branches
Flagged(particles, playerPos) ==
    \E k \in DOMAIN particles :
        \/ Abs(particles[k].x - playerPos.x) > halfTerrain
        \/ Abs(particles[k].z - playerPos.z) > halfTerrain

\* an updateTerrain that builds the noise anew
updateTerrain_reseeds(tables, particles, playerPos) ==
    [noise |-> SimplexNoise(SeedUnit),
     terrain |-> Wrapped(SimplexNoise(SeedUnit).perm, particles, playerPos),
     needsUpdate |-> Flagged(particles, playerPos)]

\* the tables and the particles of the module after the call, and whether
\* the call flagged the two attributes of the geometry for upload
updateTerrain(tables, particles, playerPos) ==
    [noise |-> tables, terrain |-> Wrapped(tables.perm, particles, playerPos),
     needsUpdate |-> Flagged(particles, playerPos)]

(***************************************************************************)
(* The state: the controller, the airplane and the camera it was given,    *)
(* and who flies: the host page (key, mouse and frame events in any        *)
(* order) or a scripted run of the smoke test (runScenario).  The page     *)
(* also loads terrain.js: the noise tables and the particles; the smoke    *)
(* test imports the controller alone.  heap holds the telemetry objects by   *)
(* identity, as those who were handed controller.telemetry see them: the   *)
(* constructor makes the only one, and fc.telemetry is its value as the    *)
(* controller reads it.                                                    *)
(***************************************************************************)
VARIABLES fc, airplane, camera, heap, noise, terrain, pilot, tick, events, last,
          main, effects

vars == <<fc, airplane, camera, heap, noise, terrain, pilot, tick, events, last,
          main, effects>>
program == <<fc, airplane, camera>>
field == <<noise, terrain>>
page == <<main, effects>>

\* a delta handed to update(): a number of microseconds, or one of the
\* values of a JS Number that is no finite number, or nothing
Num(us) == [kind |-> "number", us |-> us]
NaNDelta == [kind |-> "NaN", us |-> 0]
PosInfinity == [kind |-> "+Infinity", us |-> 0]
NegInfinity == [kind |-> "-Infinity", us |-> 0]
Undefined == [kind |-> "undefined", us |-> 0]

\* the frame deltas of the host: a 60 Hz frame, and a hitch longer than the
\* cap of a step
FrameDeltas == {Num(16667), Num(100000)}
DegenerateDeltas == {Num(0), NaNDelta, PosInfinity, NegInfinity, Undefined}

\* a guard that rejects 0, a missing delta, NaN and what is negative, but
\* lets +Infinity through: if (!delta || Number.isNaN(delta) || delta < 0) return;
BadDelta_nanOnly(delta) ==
    \/ delta.kind \in {"NaN", "undefined", "-Infinity"}
    \/ (delta.kind = "number" /\ delta.us <= 0)

\* if (!delta || !Number.isFinite(delta)) return;
BadDelta(delta) == delta.kind # "number" \/ delta.us = 0

\* a step that lasts as long as the frame: const dt = delta;
StepOf_uncapped(delta) == delta.us

\* Math.min(delta, 0.05)
StepOf(delta) ==
    IF delta.kind = "+Infinity" THEN maxStep ELSE Min(delta.us, maxStep)

\* the bounds of the exploration: executed steps and input events of a host
\* run, and the lengths of the scripted runs that are not the smoke test's
MaxSteps == 2
MaxEvents == 1
ClimbTicks == 230
BurnerTicks == 355
YawRollTicks == 70
TumbleTicks == 560
ReleaseTicks == 60

\* the smoke test: 1/60 s steps for 8, 4, 3 and 5 seconds
smokeDelta == 16667
trimTicks == 480
pullTicks == 240
rollTicks == 180
afterburnerTicks == 300

SmokeScripts == {"trim-level", "pitch-pull", "roll-right", "afterburner"}
LongScripts == {"climb-idle", "burner-level", "yaw-roll", "tumble", "burn-release"}
Pilots == {"host"} \cup SmokeScripts \cup LongScripts

ScriptTicks(p) ==
    CASE p = "trim-level" -> trimTicks
      [] p = "pitch-pull" -> pullTicks
      [] p = "roll-right" -> rollTicks
      [] p = "afterburner" -> afterburnerTicks
      [] p = "climb-idle" -> ClimbTicks
      [] p = "burner-level" -> BurnerTicks
      [] p = "yaw-roll" -> YawRollTicks
      [] p = "tumble" -> TumbleTicks
      [] p = "burn-release" -> ReleaseTicks
      [] OTHER -> 0

ScriptDelta(p) == IF p \in SmokeScripts THEN smokeDelta ELSE maxStep

\* the step at which the run "burn-release" lets go of the boost key; its
\* stick is pushed once, before the first step, and then left alone
releaseStep == 20

\* inputFn(time, controller) of a scripted run at its step i
InputFn(p, i, f) ==
    CASE p = "trim-level" ->
           [f EXCEPT !.throttle = 0, !.boost = FALSE, !.stickX = 0, !.stickY = 0]
      [] p = "pitch-pull" ->
           [f EXCEPT !.throttle = 0, !.boost = FALSE, !.stickX = 0,
                     !.stickY = IF i < 120 THEN 90000000 ELSE 0]
      [] p = "roll-right" ->
           [f EXCEPT !.throttle = 0, !.boost = FALSE,
                     !.stickX = IF i < 120 THEN U ELSE 0, !.stickY = 0]
      [] p = "afterburner" ->
           [f EXCEPT !.throttle = 1, !.boost = TRUE, !.stickX = 0, !.stickY = 0]
      [] p = "climb-idle" ->
           [f EXCEPT !.throttle = -1, !.boost = FALSE, !.stickX = 0, !.stickY = U]
      [] p = "burner-level" ->
           [f EXCEPT !.throttle = 1, !.boost = TRUE, !.stickX = 0, !.stickY = 0]
      [] p = "yaw-roll" ->
           [f EXCEPT !.throttle = 1, !.boost = TRUE, !.stickY = 0,
                     !.stickX = IF i >= 60 THEN U ELSE 0,
                     !.yawInput = IF i >= 60 THEN 1 ELSE 0]
      [] p = "tumble" ->
           [f EXCEPT !.throttle = 1, !.boost = TRUE, !.stickX = U, !.stickY = U,
                     !.yawInput = 1]
      [] p = "burn-release" ->
           IF i = 0
           THEN [f EXCEPT !.boost = TRUE, !.stickX = U, !.stickY = -(U \div 2)]
           ELSE [f EXCEPT !.boost = i < releaseStep]
      [] OTHER -> f

\* pointer movements, in pixels
MouseMoves == {<<455, 0>>, <<-200, 150>>}

Zero == Vec(0, 0, 0)

\* the seeds of the noise, in units of 1/65536: 58 and 1234.5678, two
\* of the values Math.random() * 10000 can take
Seeds == {58 * SeedUnit, 1234 * SeedUnit + 37211}

\* terrain.js not imported
NotLoaded == [p |-> <<>>, perm |-> <<>>]

\* new FlightController(airplane, camera), the airplane of createAirplane
\* and the camera of the page
InitController ==
    [throttle |-> 0, yawInput |-> 0, boost |-> FALSE, invertY |-> FALSE,
     stickX |-> 0, stickY |-> 0,
     pitch |-> 0, roll |-> 0, yaw |-> 0,
     speed |-> cruiseSpeed * MPS,
     pitchRate |-> 0, rollRate |-> 0, yawRate |-> 0,
     throttleSetting |-> 60000000,
     afterburnerFuel |-> U, afterburnerActive |-> FALSE,
     gForceSmoothed |-> U,
     cameraMode |-> 0, cameraOffset |-> Zero, cameraTarget |-> Zero,
     telemetry |->
         [speed |-> cruiseSpeed * MPS, throttle |-> 60000000, thrust |-> 0,
          aoa |-> 0, beta |-> 0, gForce |-> U, cl |-> 0, cd |-> 0, cy |-> 0,
          lift |-> 0, drag |-> 0, side |-> 0, stall |-> 0, authority |-> 0,
          pitchRate |-> 0, rollRate |-> 0, yawRate |-> 0],
     velocity |-> Vec(0, 0, -(cruiseSpeed * MPS)),
     prevVelocity |-> Vec(0, 0, -(cruiseSpeed * MPS))]

\* the object of this.telemetry = { ... } in the constructor
telemetryObject == 1

\* the state of main.js when the page has loaded (let isStarted = false; ...;
\* pointerLock says that document.pointerLockElement is set, lockPending that
\* requestPointerLock() was called and the browser has not answered), and
\* of effects.js (const activeSonarEffects = []; the rings that are in the
\* scene; how many rings were made; the scene.remove(ring) calls, in order)
PageLoaded ==
    [isStarted |-> FALSE, pointerLock |-> FALSE, lockPending |-> FALSE,
     settingsOpen |-> FALSE, cameraMode |-> 0]
NoEffects == [activeSonarEffects |-> <<>>, scene |-> {}, made |-> 0, removed |-> <<>>]

Init ==
    /\ fc = InitController
    /\ heap = <<InitController.telemetry>>
    /\ airplane = [position |-> Vec(0, 50 * Metre, 0), quaternion |-> Quat(0, 0, 0, U)]
    /\ camera = [position |-> Vec(0, 50 * Metre, 0), fov |-> baseFov * FovUnit]
    /\ pilot \in Pilots
    /\ IF pilot = "host"
       THEN /\ noise \in {SimplexNoise(seed) : seed \in Seeds}
            /\ terrain = createTerrain(noise.perm)
       ELSE noise = NotLoaded /\ terrain = <<>>
    /\ tick = 0
    /\ events = 0
    /\ last = [op |-> "new", delta |-> Num(0), executed |-> FALSE, aoa |-> 0, needsUpdate |-> FALSE]
    /\ main = [PageLoaded EXCEPT !.isStarted = (pilot = "host"),
                                 !.pointerLock = (pilot = "host")]
    /\ effects = NoEffects

\* update(delta): nothing for a delta that is 0, missing or no finite
\* number, else one step of min(delta, 0.05)
\* a step that makes a new telemetry object and leaves the earlier ones
Commit_freshObject(s) ==
    /\ fc' = s.fc
    /\ airplane' = s.airplane
    /\ camera' = s.camera
    /\ heap' = Append(heap, s.fc.telemetry)

\* (this.telemetry.speed = ... to this.telemetry.yawRate = ... write the
\* fields of the object this.telemetry refers to)
Commit(s) ==
    /\ fc' = s.fc
    /\ airplane' = s.airplane
    /\ camera' = s.camera
    /\ heap' = [heap EXCEPT ![telemetryObject] = s.fc.telemetry]

UpdateFrom(f, delta) ==
    IF BadDelta(delta)
    THEN UNCHANGED <<program, heap>>
    ELSE Commit(Step(f, airplane, camera, StepOf(delta)))

\* a frame of the host: controller.update(delta) with the delta of the frame,
\* then updateTerrain(terrain, airplane.position)
Update(delta) ==
    /\ pilot = "host"
    /\ IF BadDelta(delta)
       THEN events < MaxEvents /\ events' = events + 1 /\ tick' = tick
       ELSE tick < MaxSteps /\ tick' = tick + 1 /\ events' = events
    /\ UpdateFrom(fc, delta)
    /\ noise' = updateTerrain(noise, terrain, airplane'.position).noise
    /\ terrain' = updateTerrain(noise, terrain, airplane'.position).terrain
    /\ last' = [op |-> "update", delta |-> delta, executed |-> ~BadDelta(delta),
                aoa |-> IF BadDelta(delta) THEN 0
                        ELSE AoA(fc.velocity, airplane.quaternion),
                needsUpdate |-> updateTerrain(noise, terrain, airplane'.position).needsUpdate]
    /\ UNCHANGED <<pilot, page>>

\* one turn of the loop of runScenario: inputFn, then update(dt)
ScenarioStep ==
    /\ pilot # "host"
    /\ tick < ScriptTicks(pilot)
    /\ UpdateFrom(InputFn(pilot, tick, fc), Num(ScriptDelta(pilot)))
    /\ tick' = tick + 1
    /\ last' = [op |-> "update", delta |-> Num(ScriptDelta(pilot)), executed |-> TRUE,
                aoa |-> AoA(fc.velocity, airplane.quaternion), needsUpdate |-> FALSE]
    /\ UNCHANGED <<pilot, events, field, page>>

\* an input of the host: a write of a field of the controller or a call of
\* one of its setters
Input(f) ==
    /\ pilot = "host"
    /\ events < MaxEvents
    /\ f # fc
    /\ fc' = f
    /\ events' = events + 1
    /\ last' = [op |-> "input", delta |-> Num(0), executed |-> FALSE, aoa |-> 0, needsUpdate |-> FALSE]
    /\ UNCHANGED <<airplane, camera, heap, field, pilot, tick, page>>

SetThrottle(v) == Input([fc EXCEPT !.throttle = v])
SetYawInput(v) == Input([fc EXCEPT !.yawInput = v])
SetBoost(b) == Input([fc EXCEPT !.boost = b])
setInvertY(enabled) == Input([fc EXCEPT !.invertY = enabled])
setCameraMode(mode) == Input([fc EXCEPT !.cameraMode = mode])

\* the historical controller (src/controls.js): handleMouseMove(movementX,
\* movementY) adds to mouseX and mouseY, scaled by fpsSensitivity in cockpit
\* mode and by its mouseSensitivity in the other modes
legacyMouseSensitivity == 250000
fpsSensitivity == 150000

LegacySensitivity(l) ==
    IF l.cameraMode = 1 THEN fpsSensitivity ELSE legacyMouseSensitivity

LegacyMoved(l, movementX, movementY) ==
    [l EXCEPT !.mouseX = @ + movementX * LegacySensitivity(l),
              !.mouseY = @ + movementY * LegacySensitivity(l)]

\* a handleMouseMove with the sensitivities of the historical controller
MovedStick_byMode(f, dx, dy) ==
    LET pitchDir == IF f.invertY THEN 1 ELSE -1
    IN [f EXCEPT !.stickX = clamp(f.stickX + dx * LegacySensitivity(f), -U, U),
                 !.stickY = clamp(f.stickY + dy * LegacySensitivity(f) * pitchDir,
                                  -U, U)]

\* a handleMouseMove that accumulates without clamping
MovedStick_unclamped(f, dx, dy) ==
    LET pitchDir == IF f.invertY THEN 1 ELSE -1
    IN [f EXCEPT !.stickX = f.stickX + dx * mouseSensitivity,
                 !.stickY = f.stickY + dy * mouseSensitivity * pitchDir]

\* handleMouseMove(dx, dy)
MovedStick(f, dx, dy) ==
    LET pitchDir == IF f.invertY THEN 1 ELSE -1
    IN [f EXCEPT !.stickX = clamp(f.stickX + dx * mouseSensitivity, -U, U),
                 !.stickY = clamp(f.stickY + dy * mouseSensitivity * pitchDir, -U, U)]

handleMouseMove(dx, dy) == Input(MovedStick(fc, dx, dy))

Next ==
    \/ \E delta \in FrameDeltas \cup DegenerateDeltas : Update(delta)
    \/ ScenarioStep
    \/ \E v \in {-1, 0, 1} : SetThrottle(v)
    \/ \E v \in {-1, 0, 1} : SetYawInput(v)
    \/ \E b \in BOOLEAN : SetBoost(b)
    \/ \E b \in BOOLEAN : setInvertY(b)
    \/ \E m \in 0 .. 2 : setCameraMode(m)
    \/ \E m \in MouseMoves : handleMouseMove(m[1], m[2])

Spec == Init /\ [][Next]_vars

\* the loop of runScenario runs to its end: for (let i = 0; i < steps; i++);
\* a turn of the loop is named by its counter
FairSpec ==
    Spec /\ WF_tick(pilot # "host" /\ tick < ScriptTicks(pilot) /\ tick' = tick + 1)

(***************************************************************************)
(* The historical controller (src/controls.js), flown over the terrain by  *)
(* the historical main loop.  Its controller l keeps Euler angles and      *)
(* angular velocities in units of U (the roll velocity, which grows by     *)
(* more than 20 rad/s in a few frames, in units of 10 U), the speed in     *)
(* units of MPS, the fuel (0 to 100) in units of FuelUnit and the field of *)
(* view in FovUnit.                                                        *)
(***************************************************************************)
FuelUnit == 10^6
legacyMinSpeed == 60
legacyCruiseSpeed == 120
legacyMaxSpeed == 280
legacyAfterburnerSpeed == 420
afterburnerMaxFuel == 100
afterburnerDrain == 25
afterburnerRecharge == 15
maxGForce == 6
minAltitude == 5
ceiling == 400
legacyBoostFOV == 105

\* the controller after its constructor
LegacyController ==
    [speed |-> legacyCruiseSpeed * MPS,
     throttle |-> 0, rollInput |-> 0, boost |-> FALSE,
     afterburnerFuel |-> afterburnerMaxFuel * FuelUnit, afterburnerActive |-> FALSE,
     pitch |-> 0, yaw |-> 0, roll |-> 0,
     pitchVelocity |-> 0, yawVelocity |-> 0, rollVelocity |-> 0,
     mouseX |-> 0, mouseY |-> 0,
     gForce |-> U, gForceSmoothed |-> U,
     cameraMode |-> 0, currentFOV |-> baseFov * FovUnit,
     velocity |-> Vec(0, 0, 0)]

\* getSpeedHandling(): lerp(speedHandlingMax 1.3, speedHandlingMin 0.5, speedRatio)
getSpeedHandling(l) ==
    lerp(130000000, 50000000,
         Div8(l.speed - legacyMinSpeed * MPS, (legacyMaxSpeed - legacyMinSpeed) * MPS))

\* === AFTERBURNER SYSTEM ===
LegacyAfterburner(l, dt) ==
    IF l.boost /\ l.afterburnerFuel > 0
    THEN [l EXCEPT !.afterburnerActive = TRUE,
                   !.afterburnerFuel = Max(0, @ - afterburnerDrain * dt)]
    ELSE [l EXCEPT !.afterburnerActive = FALSE,
                   !.afterburnerFuel =
                       Min(afterburnerMaxFuel * FuelUnit, @ + afterburnerRecharge * dt)]

\* === SPEED CONTROL ===: the target speed of the throttle, of the afterburner
\* and of the pitch (Math.sin(this.pitch) * 30)
TargetSpeed(l) ==
    (IF l.afterburnerActive THEN legacyAfterburnerSpeed * MPS
     ELSE IF l.throttle > 0
     THEN lerp(legacyCruiseSpeed * MPS, legacyMaxSpeed * MPS, l.throttle * U)
     ELSE IF l.throttle < 0
     THEN lerp(legacyCruiseSpeed * MPS, legacyMinSpeed * MPS, (-l.throttle) * U)
     ELSE legacyCruiseSpeed * MPS)
    + ((Sin8(l.pitch) * 3) \div 100)

\* the speed eased toward its target, less the bleed of a turn
\* (turnIntensity * turnSpeedBleed 0.15 * speed * delta), clamped
LegacySpeed(l, dt) ==
    [l EXCEPT !.speed =
        clamp(lerp(l.speed, TargetSpeed(l), dt * 150)
              - Mul8(Mul8(Mul8(Abs(l.pitchVelocity), 15000000)
                          + Mul8(Abs(l.rollVelocity), 75000000),
                          l.speed),
                     dt * 100),
              legacyMinSpeed * MPS,
              IF l.afterburnerActive THEN legacyAfterburnerSpeed * MPS
              ELSE legacyMaxSpeed * MPS)]

\* === ANGULAR MOMENTUM SYSTEM ===: the mouse and the roll keys add to the
\* angular velocities (pitchRate 2.2, yawRate 0.8, rollRate 3.5, banking
\* 1.5), with the handling of the start of the update
AngularInput(l, handling, dt) ==
    [l EXCEPT
       !.pitchVelocity = @ + Mul8(Mul8(-l.mouseY, 220000000), handling),
       !.yawVelocity = @ + Mul8(Mul8(-l.mouseX, 80000000), handling),
       !.rollVelocity = @ + Mul8(l.rollInput * Mul8(35000000, handling), dt * 6000)
                          + Mul8(Mul8(l.mouseX, 15000000), handling)]

\* Angular damping (angularDamping 2.5): Math.pow(0.1, delta * 2.5) and
\* Math.pow(0.1, delta * 2.5 * 0.8)
AngularDamping(l, dt) ==
    [l EXCEPT !.pitchVelocity = Mul8(@, Pow8(10000000, dt * 250)),
              !.yawVelocity = Mul8(@, Pow8(10000000, dt * 250)),
              !.rollVelocity = Mul8(@, Pow8(10000000, dt * 200))]

\* Apply angular velocities
ApplyAngular(l, dt) ==
    [l EXCEPT !.pitch = @ + Mul8(l.pitchVelocity, dt * 100),
              !.yaw = @ + Mul8(l.yawVelocity, dt * 100),
              !.roll = @ + Mul8(l.rollVelocity, dt * 1000)]

\* Auto-level (autoLevelRoll 0.3, autoLevelPitch 0.15), Clamp angles (maxRoll
\* Math.PI * 0.8, maxPitch Math.PI / 2.5), Decay mouse input
AutoLevel(l, dt) ==
    [l EXCEPT
       !.roll = clamp(IF Abs(l.mouseX) < 1000000 /\ l.rollInput = 0
                      THEN lerp(@, 0, dt * 30) ELSE @,
                      -((PI * 4) \div 5), (PI * 4) \div 5),
       !.pitch = clamp(IF Abs(l.mouseY) < 1000000 THEN lerp(@, 0, dt * 15) ELSE @,
                       -((PI * 2) \div 5), (PI * 2) \div 5),
       !.mouseX = Mul8(@, 75000000),
       !.mouseY = Mul8(@, 80000000)]

\* === CALCULATE G-FORCE ===
LegacyGForceOf(l) ==
    Min(U + (Mul8(2 * Abs(l.pitchVelocity) + Abs(l.yawVelocity),
                  Div8(l.speed, legacyCruiseSpeed * MPS)) \div 2),
        maxGForce * U)

LegacyGForce(l, dt) ==
    [l EXCEPT !.gForce = LegacyGForceOf(l),
              !.gForceSmoothed = lerp(@, LegacyGForceOf(l), dt * 800)]

\* Quaternion.setFromEuler(new THREE.Euler(x, y, z, 'YXZ'))
EulerQuat(c1, c2, c3, s1, s2, s3) ==
    Quat(Mul8(Mul8(s1, c2), c3) + Mul8(Mul8(c1, s2), s3),
         Mul8(Mul8(c1, s2), c3) - Mul8(Mul8(s1, c2), s3),
         Mul8(Mul8(c1, c2), s3) - Mul8(Mul8(s1, s2), c3),
         Mul8(Mul8(c1, c2), c3) + Mul8(Mul8(s1, s2), s3))

setFromEuler(x, y, z) ==
    EulerQuat(Cos8(x \div 2), Cos8(y \div 2), Cos8(z \div 2),
              Sin8(x \div 2), Sin8(y \div 2), Sin8(z \div 2))

\* === VELOCITY WITH GRAVITY ===: forward * speed, less effectiveGravity *
\* delta * 10 on y, effectiveGravity = gravity (15) * (1 - Math.min(lift, 1)
\* * 0.7) and lift = speed / cruiseSpeed * liftCoefficient (1.2)
LegacyVelocity(l, q, dt) ==
    [multiplyScalar(applyQuaternion(Vec(0, 0, -U), q), l.speed)
        EXCEPT !.y = @ - Mul8(Mul8(15 * MPS,
                                   U - Mul8(Min(Mul8(Div8(l.speed, legacyCruiseSpeed * MPS),
                                                     120000000), U),
                                            70000000)),
                              dt * 1000)]

\* === GROUND COLLISION === and Ceiling, on the position p after its update
GroundClamp(perm, l, p) ==
    IF p.y < getTerrainHeight(perm, p.x, p.z) + minAltitude * Metre
    THEN [fc |-> [l EXCEPT !.pitchVelocity = IF l.pitch > -10000000 THEN -150000000 ELSE @],
          position |-> [p EXCEPT !.y = getTerrainHeight(perm, p.x, p.z)
                                       + minAltitude * Metre]]
    ELSE [fc |-> l, position |-> p]

CeilingClamp(g) ==
    IF g.position.y > ceiling * Metre
    THEN [fc |-> [g.fc EXCEPT !.pitchVelocity = IF g.fc.pitch < 0 THEN 50000000 ELSE @],
          position |-> [g.position EXCEPT !.y = ceiling * Metre]]
    ELSE g

\* a ground collision that is not handled: only the ceiling is enforced
GroundAndCeiling_ceilingOnly(perm, l, p) == CeilingClamp([fc |-> l, position |-> p])

GroundAndCeiling(perm, l, p) == CeilingClamp(GroundClamp(perm, l, p))

\* Camera shake from G-force: (Math.random() - 0.5) * shakeIntensity for
\* three draws of Math.random
Shake(l, draws) ==
    Vec(Mul8(draws[1] - (U \div 2), (l.gForceSmoothed - U) \div 500000),
        Mul8(draws[2] - (U \div 2), (l.gForceSmoothed - U) \div 500000),
        Mul8(draws[3] - (U \div 2), (l.gForceSmoothed - U) \div 500000))

\* Vector3.lerp(v, alpha)
lerpVector(current, v, alpha) == add(current, multiplyScalar(sub(v, current), alpha))

\* the offset of the camera from the airplane in each mode
LegacyOffset(l, q) ==
    IF l.cameraMode = 0
    THEN add(applyQuaternion(
                 Vec(0, 5 * Metre,
                     16 * Metre + ((Div8(l.speed, legacyCruiseSpeed * MPS) - U) \div 2500)),
                 setFromEuler(0, l.yaw, 0)),
             Vec(0, Sin8(l.pitch) \div 5000, 0))
    ELSE IF l.cameraMode = 1
    THEN applyQuaternion(Vec(0, 5000, -Metre), q)
    ELSE applyQuaternion(Vec(12 * Metre, 4 * Metre, 8 * Metre), setFromEuler(0, l.yaw, 0))

\* updateCamera(delta): the position of the camera, eased by delta *
\* lagFactor or delta * 5 or set in the cockpit, plus the shake (its
\* orientation, set by lookAt or copied from the airplane, is not modelled)
legacyUpdateCamera(l, plane, cam, draws, dt) ==
    add(lerpVector(cam.position, add(plane.position, LegacyOffset(l, plane.quaternion)),
                   IF l.cameraMode = 0
                   THEN Mul8(4 * U + 4 * Div8(l.speed, legacyAfterburnerSpeed * MPS),
                             dt * 100)
                   ELSE IF l.cameraMode = 1 THEN U
                   ELSE dt * 500),
        multiplyScalar(Shake(l, draws), IF l.cameraMode = 1 THEN 2 * U ELSE U))

\* FOV effect (speed + G-force)
TargetFOV(l) ==
    IF l.afterburnerActive THEN legacyBoostFOV * FovUnit
    ELSE baseFov * FovUnit
         + (Div8(l.speed - legacyCruiseSpeed * MPS,
                 (legacyAfterburnerSpeed - legacyCruiseSpeed) * MPS) \div 5)
         + ((l.gForceSmoothed - U) \div 20)

LegacyFov(l, dt) == [l EXCEPT !.currentFOV = lerp(@, TargetFOV(l), dt * 600)]

\* update(delta), statement by statement: the controller up to the G-force,
\* then the rotation, the velocity, the position and its clamps, the camera
LegacyRates(l, dt) ==
    LegacyGForce(
        AutoLevel(
            ApplyAngular(
                AngularDamping(
                    AngularInput(LegacySpeed(LegacyAfterburner(l, dt), dt),
                                 getSpeedHandling(l), dt),
                    dt),
                dt),
            dt),
        dt)

LegacyPlace(perm, l, q, p, dt) ==
    [g |-> GroundAndCeiling(perm, [l EXCEPT !.velocity = LegacyVelocity(l, q, dt)],
                            IntegratePosition(p, LegacyVelocity(l, q, dt), dt)),
     q |-> q]

LegacyView(m, cam, draws, dt) ==
    [fc |-> LegacyFov(m.g.fc, dt),
     airplane |-> [position |-> m.g.position, quaternion |-> m.q],
     camera |-> [position |->
                     legacyUpdateCamera(m.g.fc,
                                        [position |-> m.g.position, quaternion |-> m.q],
                                        cam, draws, dt),
                 fov |-> LegacyFov(m.g.fc, dt).currentFOV]]

LegacyOriented(perm, l, p, dt) ==
    LegacyPlace(perm, l, setFromEuler(l.pitch, l.yaw, l.roll), p, dt)

LegacyUpdate(perm, l, plane, cam, draws, dt) ==
    LegacyView(LegacyOriented(perm, LegacyRates(l, dt), plane.position, dt),
               cam, draws, dt)

(***************************************************************************)
(* The historical program: the main loop calls update(delta) and then      *)
(* updateTerrain at every frame, the mouse calls handleMouseMove and the   *)
(* keys write throttle, rollInput and boost.  The pilot "legacy-host" is    *)
(* free in its inputs; the pilots "legacy-dive" and "legacy-climb" move    *)
(* the mouse down or up by ScriptMove before every frame of 0.05 s.        *)
(***************************************************************************)
LegacyDiveTicks == 40
LegacyClimbTicks == 100
LegacyPilots == {"legacy-host", "legacy-dive", "legacy-climb"}
LegacyTicks(p) == IF p = "legacy-dive" THEN LegacyDiveTicks ELSE LegacyClimbTicks
ScriptMove(p) == IF p = "legacy-dive" THEN <<0, 40>> ELSE <<0, -40>>

\* the deltas of clock.getDelta(): frames at 60 Hz and at 30 Hz for the
\* host, at 20 Hz for the scripted pilots
LegacyDeltas == {Num(16667), Num(33333), Num(50000)}

\* the draws of Math.random() of a frame: the ends and the middle of [0, 1)
ShakeDraws == {<<U \div 2, U \div 2, U \div 2>>, <<0, U - 1, U \div 4>>}

LegacyInit ==
    /\ fc = LegacyController
    /\ heap = <<>>
    /\ airplane = [position |-> Vec(0, 50 * Metre, 0), quaternion |-> Quat(0, 0, 0, U)]
    /\ camera = [position |-> Vec(0, 50 * Metre, 0), fov |-> baseFov * FovUnit]
    /\ pilot \in LegacyPilots
    /\ noise \in {SimplexNoise(seed) : seed \in Seeds}
    /\ terrain = createTerrain(noise.perm)
    /\ tick = 0
    /\ events = 0
    /\ last = [op |-> "new", delta |-> Num(0), executed |-> FALSE, aoa |-> 0, needsUpdate |-> FALSE]
    /\ main = [PageLoaded EXCEPT !.isStarted = TRUE, !.pointerLock = TRUE]
    /\ effects = NoEffects

\* a frame: controller.update(delta), then updateTerrain(terrain,
\* airplane.position)
LegacyFrame(delta, draws) ==
    /\ IF pilot = "legacy-host"
       THEN tick < MaxSteps /\ delta # Num(50000)
       ELSE /\ tick < LegacyTicks(pilot)
            /\ last.op = "input"
            /\ delta = Num(50000)
            /\ draws = <<U \div 2, U \div 2, U \div 2>>
    /\ fc' = LegacyUpdate(noise.perm, fc, airplane, camera, draws, delta.us).fc
    /\ airplane' = LegacyUpdate(noise.perm, fc, airplane, camera, draws, delta.us).airplane
    /\ camera' = LegacyUpdate(noise.perm, fc, airplane, camera, draws, delta.us).camera
    /\ noise' = updateTerrain(noise, terrain, airplane'.position).noise
    /\ terrain' = updateTerrain(noise, terrain, airplane'.position).terrain
    /\ tick' = tick + 1
    /\ last' = [op |-> "update", delta |-> delta, executed |-> TRUE, aoa |-> 0,
                needsUpdate |-> updateTerrain(noise, terrain, airplane'.position).needsUpdate]
    /\ UNCHANGED <<heap, pilot, events, page>>

\* a write of a field of the controller by a key, or setCameraMode(mode)
LegacyInput(l) ==
    /\ pilot = "legacy-host"
    /\ events < MaxEvents
    /\ l # fc
    /\ fc' = l
    /\ events' = events + 1
    /\ last' = [op |-> "input", delta |-> Num(0), executed |-> FALSE, aoa |-> 0, needsUpdate |-> FALSE]
    /\ UNCHANGED <<airplane, camera, heap, field, pilot, tick, page>>

\* handleMouseMove(movementX, movementY)
legacyHandleMouseMove(movementX, movementY) ==
    /\ IF pilot = "legacy-host"
       THEN /\ events < MaxEvents
            /\ <<movementX, movementY>> \in MouseMoves
            /\ events' = events + 1
       ELSE /\ tick < LegacyTicks(pilot)
            /\ last.op # "input"
            /\ <<movementX, movementY>> = ScriptMove(pilot)
            /\ events' = events
    /\ fc' = LegacyMoved(fc, movementX, movementY)
    /\ last' = [op |-> "input", delta |-> Num(0), executed |-> FALSE, aoa |-> 0, needsUpdate |-> FALSE]
    /\ UNCHANGED <<airplane, camera, heap, field, pilot, tick, page>>

LegacyNext ==
    \/ \E delta \in LegacyDeltas, draws \in ShakeDraws :
          LegacyFrame(delta, draws)
    \/ \E m \in MouseMoves \cup {<<0, 40>>, <<0, -40>>} : legacyHandleMouseMove(m[1], m[2])
    \/ \E v \in {-1, 0, 1} : LegacyInput([fc EXCEPT !.throttle = v])
    \/ \E v \in {-1, 0, 1} : LegacyInput([fc EXCEPT !.rollInput = v])
    \/ \E b \in BOOLEAN : LegacyInput([fc EXCEPT !.boost = b])
    \/ \E m \in 0 .. 2 : LegacyInput([fc EXCEPT !.cameraMode = m])

LegacySpec == LegacyInit /\ [][LegacyNext]_vars

(***************************************************************************)
(* updateTerrain on its own: the particles of the page, and a player that  *)
(* is put anywhere between two calls.                                      *)
(***************************************************************************)
MaxPages == 2

\* where the player is put, in metres: near, across the edge of the field,
\* and several fields away
PlayerX == {0, 8 * Metre, -1600 * Metre, 12345 * Metre + 5000}
PlayerZ == {0, -730 * Metre, 4000 * Metre + 2500}

PagingInit == Init /\ pilot = "host"

\* updateTerrain(terrain, playerPos) for a player at (x, z)
Page(x, z) ==
    /\ tick < MaxPages
    /\ airplane' = [airplane EXCEPT !.position = Vec(x, airplane.position.y, z)]
    /\ noise' = updateTerrain(noise, terrain, airplane'.position).noise
    /\ terrain' = updateTerrain(noise, terrain, airplane'.position).terrain
    /\ tick' = tick + 1
    /\ last' = [op |-> "page", delta |-> Num(0), executed |-> FALSE, aoa |-> 0,
                needsUpdate |-> updateTerrain(noise, terrain, airplane'.position).needsUpdate]
    /\ UNCHANGED <<fc, camera, heap, pilot, events, page>>

PagingNext == \E x \in PlayerX, z \in PlayerZ : Page(x, z)

PagingSpec == PagingInit /\ [][PagingNext]_vars

(***************************************************************************)
(* The page (main.js) from its load on: the listeners of keydown, keyup,   *)
(* mousemove and click, the answers of the browser to requestPointerLock,  *)
(* and animate.  A handler works on w, the main.js state, the controller   *)
(* and the effects.js state.  The HUD, the settings and debug panels and   *)
(* the CSS ring are DOM only and are left out.                             *)
(***************************************************************************)
sonarMaxAge == 3000000

\* createSonarEffect(scene, position): userData.age = 0; scene.add(ring);
\* activeSonarEffects.push(ring)
createSonarEffect(e) ==
    [e EXCEPT !.activeSonarEffects = Append(@, [id |-> e.made + 1, age |-> 0]),
              !.scene = @ \cup {e.made + 1},
              !.made = @ + 1]

\* activeSonarEffects.splice(i, 1), for an index of JS
splice(list, i) == [k \in 1 .. Len(list) - 1 |-> IF k <= i THEN list[k] ELSE list[k + 1]]

\* the body of the loop of updateSonarEffects for the ring at index i
SonarTurn(e, i, delta) ==
    LET age == e.activeSonarEffects[i + 1].age + delta
        ring == e.activeSonarEffects[i + 1].id
    IN IF age >= sonarMaxAge
       THEN [e EXCEPT !.scene = @ \ {ring},
                      !.removed = Append(@, ring),
                      !.activeSonarEffects = splice(@, i)]
       ELSE [e EXCEPT !.activeSonarEffects[i + 1].age = age]

\* a loop that runs forward: for (let i = 0; i < activeSonarEffects.length; i++)
RECURSIVE SonarForward(_, _, _)
SonarForward(e, i, delta) ==
    IF i >= Len(e.activeSonarEffects) THEN e
    ELSE SonarForward(SonarTurn(e, i, delta), i + 1, delta)
updateSonarEffects_forward(e, delta) == SonarForward(e, 0, delta)

\* for (let i = activeSonarEffects.length - 1; i >= 0; i--)
RECURSIVE SonarLoop(_, _, _)
SonarLoop(e, i, delta) ==
    IF i < 0 THEN e ELSE SonarLoop(SonarTurn(e, i, delta), i - 1, delta)

\* updateSonarEffects(scene, delta), delta in microseconds
updateSonarEffects(e, delta) == SonarLoop(e, Len(e.activeSonarEffects) - 1, delta)

\* renderer.domElement.requestPointerLock()
requestPointerLock(m) == [m EXCEPT !.lockPending = TRUE]

\* setSettingsOpen(open)
setSettingsOpen(m, open) ==
    IF open
    THEN [m EXCEPT !.settingsOpen = TRUE, !.pointerLock = FALSE]
    ELSE IF m.isStarted
         THEN requestPointerLock([m EXCEPT !.settingsOpen = FALSE])
         ELSE [m EXCEPT !.settingsOpen = FALSE]

\* startGame()
startGame(w) ==
    IF w.main.isStarted THEN w
    ELSE [w EXCEPT !.main = requestPointerLock([@ EXCEPT !.isStarted = TRUE])]

\* the switch of the keydown listener, on e.key.toLowerCase()
KeySwitch(w, key) ==
    CASE key = "w" -> [w EXCEPT !.fc.throttle = 1]
      [] key = "s" -> [w EXCEPT !.fc.throttle = -1]
      [] key = "a" -> [w EXCEPT !.fc.yawInput = -1]
      [] key = "d" -> [w EXCEPT !.fc.yawInput = 1]
      [] key = "shift" -> [w EXCEPT !.fc.boost = TRUE]
      [] key = " " -> [w EXCEPT !.effects = createSonarEffect(@)]
      [] key = "g" -> [w EXCEPT !.main.cameraMode = (@ + 1) % 3,
                                !.fc.cameraMode = (w.main.cameraMode + 1) % 3]
      [] key = "k" -> [w EXCEPT !.main = setSettingsOpen(@, ~w.main.settingsOpen)]
      [] OTHER -> w

\* a keydown listener without if (!isStarted) return
keydown_ungated(w, key) ==
    IF key = "Enter" /\ ~w.main.isStarted THEN startGame(w) ELSE KeySwitch(w, key)

\* the keydown listener
keydown(w, key) ==
    IF key = "Enter" /\ ~w.main.isStarted THEN startGame(w)
    ELSE IF ~w.main.isStarted THEN w
    ELSE KeySwitch(w, key)

\* the keyup listener
keyup(w, key) ==
    IF ~w.main.isStarted THEN w
    ELSE CASE key \in {"w", "s"} -> [w EXCEPT !.fc.throttle = 0]
           [] key \in {"a", "d"} -> [w EXCEPT !.fc.yawInput = 0]
           [] key = "shift" -> [w EXCEPT !.fc.boost = FALSE]
           [] OTHER -> w

\* the mousemove listener
mousemove(w, movementX, movementY) ==
    IF ~w.main.isStarted \/ ~w.main.pointerLock THEN w
    ELSE [w EXCEPT !.fc = MovedStick(@, movementX, movementY)]

\* the click listener
click(w) ==
    IF w.main.isStarted /\ ~w.main.pointerLock /\ ~w.main.settingsOpen
    THEN [w EXCEPT !.main = requestPointerLock(@)]
    ELSE w

\* the bounds of the exploration of the page: the events and the frames of a
\* player who is free in keys, mouse and clicks, and the rings and the frames
\* of one who only presses Enter and the sonar key
MainEvents == 2
MainFrames == 1
MaxRings == 2
SonarFrames == 3

MainPilots == {"player", "sonar"}
MainKeys == {"Enter", "w", "d", "shift", " ", "g", "k", "x"}
ReleasedKeys == {"w", "d", "shift"}

\* clock.getDelta(): a frame of 1/60 s for the player; for the sonar, frames
\* after the page was in the background for 1.5 s and for 2 s
MainDeltas(p) == IF p = "sonar" THEN {Num(1500000), Num(2000000)} ELSE {Num(16667)}

MainInit ==
    /\ fc = InitController
    /\ heap = <<InitController.telemetry>>
    /\ airplane = [position |-> Vec(0, 50 * Metre, 0), quaternion |-> Quat(0, 0, 0, U)]
    /\ camera = [position |-> Vec(0, 50 * Metre, 0), fov |-> baseFov * FovUnit]
    /\ pilot \in MainPilots
    /\ noise = SimplexNoise(58 * SeedUnit)
    /\ terrain = createTerrain(noise.perm)
    /\ tick = 0
    /\ events = 0
    /\ last = [op |-> "new", key |-> "", delta |-> Num(0), executed |-> FALSE, aoa |-> 0,
               needsUpdate |-> FALSE]
    /\ main = PageLoaded
    /\ effects = NoEffects

World == [main |-> main, fc |-> fc, effects |-> effects]

\* what a listener leaves behind
Handled(op, key, w, counted) ==
    /\ fc' = w.fc
    /\ main' = w.main
    /\ effects' = w.effects
    /\ events' = IF counted THEN events + 1 ELSE events
    /\ last' = [op |-> op, key |-> key, delta |-> Num(0), executed |-> FALSE, aoa |-> 0,
                needsUpdate |-> FALSE]
    /\ UNCHANGED <<airplane, camera, heap, field, pilot, tick>>

KeyDown(key) ==
    /\ pilot = "sonar" => key \in {"Enter", " "}
    /\ (key = " " /\ main.isStarted) => effects.made < MaxRings
    /\ (key = " " /\ main.isStarted /\ pilot = "sonar") \/ events < MainEvents
    /\ Handled("keydown", key, keydown(World, key),
               ~(key = " " /\ main.isStarted /\ pilot = "sonar"))

KeyUp(key) ==
    /\ pilot = "player"
    /\ events < MainEvents
    /\ Handled("keyup", key, keyup(World, key), TRUE)

MouseMove(movementX, movementY) ==
    /\ pilot = "player"
    /\ events < MainEvents
    /\ Handled("mousemove", "", mousemove(World, movementX, movementY), TRUE)

Click ==
    /\ pilot = "player"
    /\ events < MainEvents
    /\ Handled("click", "", click(World), TRUE)

\* the browser answers a requestPointerLock(), granting the lock or not
PointerLockAnswer(granted) ==
    /\ main.lockPending
    /\ Handled("pointerlock", "",
               [World EXCEPT !.main.lockPending = FALSE, !.main.pointerLock = granted],
               FALSE)

\* the user leaves the pointer lock (Escape)
PointerLockLost ==
    /\ main.pointerLock
    /\ Handled("pointerlock", "", [World EXCEPT !.main.pointerLock = FALSE], FALSE)

\* animate(): if (isStarted) { controller.update(delta); updateTerrain(terrain,
\* airplane.position); updateSonarEffects(scene, delta); updateHUD(delta) }
Animate(delta) ==
    /\ tick < (IF pilot = "sonar" THEN SonarFrames ELSE MainFrames)
    /\ delta \in MainDeltas(pilot)
    /\ IF main.isStarted
       THEN /\ UpdateFrom(fc, delta)
            /\ noise' = updateTerrain(noise, terrain, airplane'.position).noise
            /\ terrain' = updateTerrain(noise, terrain, airplane'.position).terrain
            /\ effects' = updateSonarEffects(effects, delta.us)
       ELSE UNCHANGED <<program, heap, field, effects>>
    /\ tick' = tick + 1
    /\ last' = [op |-> "frame", key |-> "", delta |-> delta,
                executed |-> main.isStarted /\ ~BadDelta(delta), aoa |-> 0,
                needsUpdate |-> main.isStarted
                                /\ updateTerrain(noise, terrain, airplane'.position).needsUpdate]
    /\ UNCHANGED <<main, pilot, events>>

MainNext ==
    \/ \E key \in MainKeys : KeyDown(key)
    \/ \E key \in ReleasedKeys : KeyUp(key)
    \/ \E m \in MouseMoves : MouseMove(m[1], m[2])
    \/ Click
    \/ \E granted \in BOOLEAN : PointerLockAnswer(granted)
    \/ PointerLockLost
    \/ \E delta \in {Num(16667), Num(1500000), Num(2000000)} : Animate(delta)

MainSpec == MainInit /\ [][MainNext]_vars

(***************************************************************************)
(* Properties.  In a step of the state machine, Before is the controller   *)
(* as update() finds it (a scripted run writes its inputs first), Executed *)
(* says that the step is an update that went past the guard, and Dt is its *)
(* time step.                                                              *)
(***************************************************************************)
Before == IF pilot = "host" THEN fc ELSE InputFn(pilot, tick, fc)
Executed == tick' = tick + 1
Dt == StepOf(last'.delta)
quatLengthSq(q) == Mul8(q.x, q.x) + Mul8(q.y, q.y) + Mul8(q.z, q.z) + Mul8(q.w, q.w)
cross(a, b) ==
    Vec(Mul8(a.y, b.z) - Mul8(a.z, b.y),
        Mul8(a.z, b.x) - Mul8(a.x, b.z),
        Mul8(a.x, b.y) - Mul8(a.y, b.x))
topSpeed == Mul8(afterburnerSpeed * MPS, 110000000)

\* C1: an update whose delta is NaN, +Infinity, -Infinity, 0 or undefined
\* changes nothing of the controller, the airplane and the camera
C1_BadDeltaIsNoOp ==
    [][(last'.op = "update" /\ (tick' # tick \/ events' # events)
        /\ last'.delta \in DegenerateDeltas) => UNCHANGED program]_vars

\* an update with an infinite delta was skipped after a step was executed
C1_Witness == last.op = "update" /\ last.delta = PosInfinity /\ tick > 0

\* C2: in every reachable state the afterburner fuel is between 0 and 1
C2_FuelInUnitInterval == fc.afterburnerFuel >= 0 /\ fc.afterburnerFuel <= U

\* the afterburner has burned the tank to below the threshold
C2_Witness == tick > 0 /\ fc.boost /\ fc.afterburnerFuel < fuelThreshold

\* C3: in every reachable state the speed is between minSpeed and
\* afterburnerSpeed * 1.1 (to 0.0002 m/s, the rounding of the rescaling)
\* and the speed field is the length of the velocity; in every executed
\* step the velocity has the direction of the velocity before the clamp
C3_SpeedBounded ==
    /\ [](/\ length(fc.velocity) >= minSpeed * MPS - 20
          /\ length(fc.velocity) <= topSpeed + 20
          /\ fc.speed = length(fc.velocity))
    /\ [][Executed =>
            LET free == Accelerated(Before.velocity,
                                    Forces(Before, airplane, camera, Dt).aero.accel, Dt)
                c == cross(fc'.velocity, free)
            IN /\ dot(fc'.velocity, free) > 0
               /\ Abs(c.x) <= 3 /\ Abs(c.y) <= 3 /\ Abs(c.z) <= 3]_vars

\* the clamp to minSpeed has acted: a climb at idle ends at minSpeed
C3_Witness ==
    pilot = "climb-idle" /\ tick > 0 /\ Abs(fc.speed - minSpeed * MPS) <= 20

\* C4: after every update each angular rate is within its limit; in the
\* roll-right run of the smoke test the roll rate stays under 260 deg/s and
\* is over 140 deg/s at the end of the 2 seconds of full stick
C4_RatesBounded ==
    /\ Abs(fc.pitchRate) <= maxPitchRate
    /\ Abs(fc.rollRate) <= maxRollRate
    /\ Abs(fc.yawRate) <= maxYawRate
    /\ (pilot = "roll-right" => Abs(fc.rollRate) <= degToRad(260))
    /\ (pilot = "roll-right" /\ tick = 120 => fc.rollRate >= degToRad(140))

\* the clamp of the yaw rate has acted
C4_Witness == pilot = "yaw-roll" /\ tick > 0 /\ fc.yawRate = maxYawRate

\* C5: in every reachable state the quaternion of the airplane has length
\* 1 to 10^-5, that is a squared length of 1 to 2 * 10^-5
C5_UnitQuaternion == Abs(quatLengthSq(airplane.quaternion) - U) <= 2000

\* C7: after an executed step the afterburner is active exactly when boost
\* was requested and the fuel at the start of the step was over 0.02
C7_AfterburnerMemoryless ==
    [][Executed =>
        (fc'.afterburnerActive
            <=> (Before.boost /\ Before.afterburnerFuel > fuelThreshold))]_vars

\* boost is held, and the afterburner has gone out for want of fuel
C7_Witness ==
    pilot = "burner-level" /\ tick > 0 /\ fc.boost /\ ~fc.afterburnerActive

\* C8: throttleSetting is in [0, 1]; an executed step adds throttleRate * dt
\* when the throttle input is positive, takes it off when negative, clamped
\* to [0, 1], and leaves throttleSetting alone when the input is 0
C8_ThrottleRamp ==
    /\ [](fc.throttleSetting >= 0 /\ fc.throttleSetting <= U)
    /\ [][Executed =>
            fc'.throttleSetting =
                IF Before.throttle > 0
                THEN Min(U, Before.throttleSetting + throttleRate * Dt)
                ELSE IF Before.throttle < 0
                THEN Max(0, Before.throttleSetting - throttleRate * Dt)
                ELSE Before.throttleSetting]_vars

\* the throttle was pulled back until the setting stopped at 0
C8_Witness == pilot = "climb-idle" /\ tick > 0 /\ fc.throttleSetting = 0

\* C9: in an executed step the rates are integrated from accelerations of
\* the orientation, velocity and rates before the step; the orientation is
\* rotated by the new rates; the telemetry's aoa and beta and the forces
\* are of the rotated orientation and the velocity before the step; the
\* velocity is integrated from those forces and the position advanced by
\* the new velocity
C9_PhaseOrder ==
    [][Executed =>
        LET law == ControlLaw(RecenterStick(Before, Dt), airplane.quaternion)
        IN /\ fc'.rollRate
                = IntegrateRate(Before.rollRate, law.rollAccel, maxRollRate, Dt)
           /\ fc'.pitchRate
                = IntegrateRate(Before.pitchRate, law.pitchAccel, maxPitchRate, Dt)
           /\ fc'.yawRate
                = IntegrateRate(Before.yawRate, law.yawAccel, maxYawRate, Dt)
           /\ airplane'.quaternion
                = Orient(airplane.quaternion, Axes(airplane.quaternion), fc', Dt)
           /\ fc'.telemetry.aoa = AoA(Before.velocity, airplane'.quaternion)
           /\ fc'.telemetry.beta = Beta(Before.velocity, airplane'.quaternion)
           /\ fc'.velocity
                = IntegrateVelocity(
                    Before.velocity,
                    Aero(fc', Before.velocity, airplane'.quaternion,
                         Authority(Before.velocity)).accel,
                    Dt)
           /\ airplane'.position
                = IntegratePosition(airplane.position, fc'.velocity, Dt)]_vars

\* after a step of the pitch pull the reported angle of attack is not the
\* angle of the new velocity to the new orientation
C9_Witness ==
    /\ pilot = "pitch-pull" /\ tick > 0
    /\ fc.telemetry.aoa # AoA(fc.velocity, airplane.quaternion)

\* C10: in an executed step the reported thrust is lerp(idleThrust,
\* maxThrust, throttleSetting), plus afterburnerThrust exactly when
\* afterburnerActive, of the throttleSetting and afterburnerActive the step
\* leaves; the fuel has burned or regenerated once and the throttle has
\* moved once
C10_ThrustOfUpdatedEngine ==
    [][Executed =>
        /\ fc'.telemetry.thrust
             = lerp(idleThrust, maxThrust, fc'.throttleSetting)
               + (IF fc'.afterburnerActive THEN afterburnerThrust ELSE 0)
        /\ Abs(fc'.throttleSetting - Before.throttleSetting) <= throttleRate * Dt
        /\ fc'.afterburnerFuel - Before.afterburnerFuel
             \in {-(afterburnerBurnRate * Dt), afterburnerRegenRate * Dt,
                  U - Before.afterburnerFuel}]_vars

\* the afterburner lights in the first step of a run at full throttle: the
\* reported thrust is that of the lit afterburner and the moved throttle
C10_Witness ==
    /\ pilot = "afterburner" /\ tick = 1
    /\ fc.afterburnerActive
    /\ fc.throttleSetting > 60000000
    /\ fc.telemetry.thrust > lerp(idleThrust, maxThrust, 60000000) + afterburnerThrust

\* C11: getTerrainHeight is a function of (x, z) alone once the module is
\* loaded: no step writes the tables p and perm, and the height a particle got
\* from an earlier call is the height a call with its coordinates returns now,
\* whatever frames and inputs came between.
C11_HeightIsPure ==
    /\ [][noise' = noise]_vars
    /\ [](\A k \in DOMAIN terrain :
            terrain[k].y = getTerrainHeight(noise.perm, terrain[k].x, terrain[k].z))

C11_Witness ==
    /\ pilot = "host"
    /\ tick = MaxSteps
    /\ \E k \in DOMAIN terrain : terrain[k] # createTerrain(noise.perm)[k]

\* C12: once the constructor has returned, whatever the seed, p[0..255] holds
\* each of 0..255 exactly once, and perm has 512 entries, perm[i] = p[i mod 256].
C12_PermutationTable ==
    noise # NotLoaded =>
        /\ DOMAIN noise.p = 0 .. 255
        /\ {noise.p[i] : i \in 0 .. 255} = 0 .. 255
        /\ DOMAIN noise.perm = 0 .. 511
        /\ \A i \in 0 .. 511 : noise.perm[i] = noise.p[i % 256]

MovedIn(m, move) == MovedStick([fc EXCEPT !.cameraMode = m], move[1], move[2])

\* C15 as amended: handleMouseMove adds dx * 0.0022 to stickX and
\* dy * 0.0022 to stickY (negated unless invertY) and clamps both to [-1, 1],
\* the same in every camera mode; it is the historical controller
\* (src/controls.js) whose sensitivity is 0.0015 in cockpit mode and 0.0025 in
\* the other two.
C15_SensitivityIgnoresMode ==
    /\ [](\A m \in 0 .. 2 : \A move \in MouseMoves :
            /\ MovedIn(m, move).stickX
                 = clamp(fc.stickX + move[1] * mouseSensitivity, -U, U)
            /\ MovedIn(m, move).stickY
                 = clamp(fc.stickY
                         + move[2] * mouseSensitivity * (IF fc.invertY THEN 1 ELSE -1),
                         -U, U)
            /\ LegacyMoved([mouseX |-> 0, mouseY |-> 0, cameraMode |-> m],
                           move[1], move[2]).mouseX
                 = move[1] * (IF m = 1 THEN 150000 ELSE 250000))
    /\ [][(last'.op = "input" /\ <<fc'.stickX, fc'.stickY>> # <<fc.stickX, fc.stickY>>)
           => \E move \in MouseMoves :
                 /\ fc' = MovedIn(fc.cameraMode, move)
                 /\ fc'.stickX = clamp(fc.stickX + move[1] * mouseSensitivity, -U, U)]_vars

C15_Witness ==
    /\ pilot = "host"
    /\ last.op = "input"
    /\ fc.stickX = -200 * mouseSensitivity
    /\ fc.stickY = -150 * mouseSensitivity

\* C15 as stated: the sensitivity of handleMouseMove depends on the camera
\* mode: some pointer delta moves the stick differently in two of the modes.
C15_SensitivityByMode ==
    \E m1 \in 0 .. 2 : \E m2 \in 0 .. 2 : \E move \in MouseMoves :
        \/ MovedIn(m1, move).stickX # MovedIn(m2, move).stickX
        \/ MovedIn(m1, move).stickY # MovedIn(m2, move).stickY

\* C16: in an executed step whose angle of attack at the start of the step
\* is above aoaLimit the desired pitch rate the rate controller gets is <= 0
\* whatever the stick asks, below -aoaLimit it is >= 0, and within the
\* limits it is the shaped stick times maxPitchRate times the authority; the
\* pitch rate after the step is the one integrated from that command.
StickCommand(f) == Mul8(Mul8(Shaped(f.stickY), maxPitchRate), Authority(f.velocity))
LimitedStep(f, law, dt) ==
    /\ law.aoa > aoaLimit => law.desiredPitchRate <= 0
    /\ law.aoa < -aoaLimit => law.desiredPitchRate >= 0
    /\ Abs(law.aoa) <= aoaLimit => law.desiredPitchRate = StickCommand(f)
    /\ fc'.pitchRate = IntegrateRate(f.pitchRate, law.pitchAccel, maxPitchRate, dt)
C16_AoALimiter ==
    [][(Executed /\ last'.executed)
       => LimitedStep(RecenterStick(Before, Dt),
                      ControlLaw(RecenterStick(Before, Dt), airplane.quaternion), Dt)]_vars

\* a step of the idle climb taken with the angle of attack above the limit
\* while the stick asks for more pitch
C16_Witness ==
    /\ pilot = "climb-idle"
    /\ last.executed
    /\ last.aoa > aoaLimit
    /\ fc.stickY > deadzone

\* C17: the step is capped at 0.05 s: an update with a finite delta above
\* 0.05 leaves the controller, the airplane, the camera and the telemetry
\* exactly as update(0.05) from the same state and inputs does (the hitch
\* frames of the host, and from every state of the scripted runs deltas up
\* to the largest number of the model), and no executed step integrates
\* over more than 0.05 s: the tank never changes by more than 0.05 s of burn.
Hitches == {Num(50001), Num(2000000000)}
ResultIs(s) ==
    /\ fc' = s.fc
    /\ airplane' = s.airplane
    /\ camera' = s.camera
    /\ heap'[telemetryObject] = s.fc.telemetry
SameResult(f, capped) ==
    \A delta \in Hitches : Step(f, airplane, camera, StepOf(delta)) = capped
C17_StepCapped ==
    [][(Executed /\ last'.executed)
       => /\ last'.delta.us > maxStep
                => ResultIs(Step(Before, airplane, camera, maxStep))
          /\ pilot # "host"
                => SameResult(Before, Step(Before, airplane, camera, maxStep))
          /\ Abs(fc'.afterburnerFuel - fc.afterburnerFuel)
                <= afterburnerBurnRate * maxStep]_vars

\* the second frame of the host was a hitch of 0.1 s with the afterburner lit
C17_Witness ==
    /\ pilot = "host"
    /\ tick = MaxSteps
    /\ last.executed
    /\ last.delta = Num(100000)
    /\ fc.afterburnerActive

\* C18 (amended): in the afterburner run of the smoke test (throttle +1 and
\* boost at every step, 300 steps of 1/60 s) the speed never falls from one
\* step to the next and its maximum, the speed of the last step, is between
\* 360 and 520 m/s; the fuel falls in every step that starts above the
\* threshold 0.02, rises in every step that starts at or below it, and never
\* goes lower than one step of burn below the threshold.
AfterburnerRunStep ==
    /\ fc'.speed >= fc.speed
    /\ fc'.speed <= 520 * MPS
    /\ tick' = afterburnerTicks => fc'.speed >= 360 * MPS
    /\ fc.afterburnerFuel > fuelThreshold => fc'.afterburnerFuel < fc.afterburnerFuel
    /\ fc.afterburnerFuel <= fuelThreshold => fc'.afterburnerFuel > fc.afterburnerFuel
    /\ fc'.afterburnerFuel >= fuelThreshold - afterburnerBurnRate * smokeDelta
C18_AfterburnerRun ==
    [][(pilot = "afterburner" /\ Executed) => AfterburnerRunStep]_vars

\* the end of the run: the tank has been drained to the threshold and the
\* speed is in the band of the smoke test
C18_Witness ==
    /\ pilot = "afterburner"
    /\ tick = afterburnerTicks
    /\ fc.speed >= 360 * MPS
    /\ fc.afterburnerFuel <= fuelThreshold + afterburnerRegenRate * smokeDelta

\* C18 as stated: in the afterburner run the speed never falls and the
\* fuel falls, or at least does not rise, from every step to the next.
C18_FuelFallsEveryStep ==
    [][(pilot = "afterburner" /\ Executed)
       => /\ fc'.speed >= fc.speed
          /\ fc'.afterburnerFuel <= fc.afterburnerFuel]_vars

\* C19: in the pitch pull of the smoke test (stick 0.9 for 120 steps of
\* 1/60 s, then neutral for 120, throttle input 0, no boost) the smoothed
\* G-force never exceeds 9 and is at least 3.5 when the pull ends, so its
\* peak is in [3.5, 9], and the stall fraction never exceeds 0.45.
pullSteps == 120
C19_PitchPull ==
    pilot = "pitch-pull"
        => /\ fc.gForceSmoothed <= 9 * U
           /\ fc.telemetry.gForce <= 9 * U
           /\ tick = pullSteps => fc.telemetry.gForce >= 350000000
           /\ fc.telemetry.stall <= 45000000

\* a step of the pull taken with the angle of attack beyond the limit: the
\* wing is partly stalled and the G-force is already above 3.5
C19_Witness ==
    /\ pilot = "pitch-pull"
    /\ tick < pullSteps
    /\ last.aoa > aoaLimit
    /\ fc.telemetry.stall > 30000000
    /\ fc.telemetry.gForce >= 350000000

\* C20: in the historical controller the airplane is, after every update,
\* at least minAltitude above the terrain under it and at most at the
\* ceiling of 400.
C20_AltitudeClamped ==
    tick > 0
        => /\ airplane.position.y
                >= getTerrainHeight(noise.perm, airplane.position.x, airplane.position.z)
                       + minAltitude * Metre
           /\ airplane.position.y <= ceiling * Metre

\* the dive has reached the ground: the airplane sits minAltitude above the
\* terrain under it, away from where it started
C20_Witness ==
    /\ pilot = "legacy-dive"
    /\ last.op = "update"
    /\ airplane.position.z < 0
    /\ airplane.position.y
           = getTerrainHeight(noise.perm, airplane.position.x, airplane.position.z)
                 + minAltitude * Metre
    /\ airplane.position.y # 50 * Metre

\* C21: a step taken with boost not requested adds afterburnerRegenRate * dt
\* to the fuel, up to exactly 1, and leaves a full tank full; in a run that
\* lets go of the boost key and whose steps keep arriving the fuel comes
\* back to 1 and stays there.
RegenStep ==
    /\ fc.afterburnerFuel + afterburnerRegenRate * Dt < U
           => fc'.afterburnerFuel = fc.afterburnerFuel + afterburnerRegenRate * Dt
    /\ fc.afterburnerFuel + afterburnerRegenRate * Dt >= U => fc'.afterburnerFuel = U
    /\ ~fc'.afterburnerActive
C21_FuelRegenerates ==
    /\ [][(Executed /\ last'.executed /\ ~Before.boost) => RegenStep]_vars
    /\ (pilot = "burn-release" /\ tick = releaseStep) ~> [](fc.afterburnerFuel = U)

\* the run has let go of the boost key with the tank at 0.72 and the fuel
\* is back at exactly 1
C21_Witness ==
    /\ pilot = "burn-release"
    /\ tick > releaseStep
    /\ ~fc.boost
    /\ ~fc.afterburnerActive
    /\ fc.afterburnerFuel = U

\* C22: every executed step multiplies each axis of the stick by
\* exp(-stickReturn * dt) before the control law reads it: the axis keeps
\* its sign and shrinks; an axis that has come below the deadzone commands
\* what a centred stick commands; and a stick that is left alone comes
\* below the deadzone on both axes and stays there.  (The axes are kept to
\* 10^-8: the strict decrease is stated for magnitudes of 10^-6 and more.)
Decayed(before, after, dt) ==
    /\ Abs(after - Mul8(Exp8(-(stickReturn * dt * 100)), before)) <= 1
    /\ before > 0 => after >= 0 /\ after <= before
    /\ before < 0 => after <= 0 /\ after >= before
    /\ before = 0 => after = 0
    /\ Abs(before) >= 100 => Abs(after) < Abs(before) /\ after # 0
Centred(f) == [f EXCEPT !.stickX = 0, !.stickY = 0]
StickStep(f, q, dt) ==
    /\ Decayed(f.stickX, fc'.stickX, dt)
    /\ Decayed(f.stickY, fc'.stickY, dt)
    /\ Abs(fc'.stickX) < deadzone
           => fc'.rollRate = IntegrateRate(f.rollRate, ControlLaw(Centred(f), q).rollAccel,
                                           maxRollRate, dt)
    /\ Abs(fc'.stickY) < deadzone
           => fc'.pitchRate = IntegrateRate(f.pitchRate, ControlLaw(Centred(f), q).pitchAccel,
                                            maxPitchRate, dt)
C22_StickSpringReturn ==
    /\ [][(Executed /\ last'.executed) => StickStep(Before, airplane.quaternion, Dt)]_vars
    /\ (pilot = "burn-release" /\ tick = 1)
           ~> [](Abs(fc.stickX) < deadzone /\ Abs(fc.stickY) < deadzone)

\* the stick that was pushed to (1, -0.5) before the first step has come
\* back to within the deadzone on both axes, and is not yet at the centre
C22_Witness ==
    /\ pilot = "burn-release"
    /\ last.executed
    /\ fc.stickX > 0 /\ fc.stickX < deadzone
    /\ fc.stickY < 0 /\ fc.stickY > -deadzone

\* C23: every executed step moves the field of view toward 82 if the
\* afterburner is active in that step and toward 75 otherwise, by
\* damp(fov, target, 4, dt), without passing the target; the field of view
\* is always between 75 and 82.  (The field of view is kept to 10^-6
\* degrees, and "between" is to that last digit.)
TargetFov == IF fc'.afterburnerActive THEN boostFov * FovUnit ELSE baseFov * FovUnit
FovStep ==
    /\ camera'.fov = damp(camera.fov, TargetFov, 4, Dt)
    /\ camera.fov <= TargetFov
           => camera'.fov >= camera.fov - 1 /\ camera'.fov <= TargetFov + 1
    /\ camera.fov >= TargetFov
           => camera'.fov <= camera.fov + 1 /\ camera'.fov >= TargetFov - 1
    /\ Abs(TargetFov - camera.fov) >= 100
           => Abs(TargetFov - camera'.fov) < Abs(TargetFov - camera.fov)
C23_FovDamped ==
    /\ [](camera.fov >= baseFov * FovUnit - 1 /\ camera.fov <= boostFov * FovUnit + 1)
    /\ [][(Executed /\ last'.executed) => FovStep]_vars

\* the afterburner has widened the field of view to within a hundredth of a
\* degree of 82
C23_Witness ==
    /\ last.executed
    /\ fc.afterburnerActive
    /\ camera.fov > boostFov * FovUnit - 10000

\* C24: the afterburner never empties the tank: the fuel is always above
\* 0.02 - afterburnerBurnRate * 0.05 = 0.006, and a step with the afterburner
\* active started above 0.02 and took exactly afterburnerBurnRate * dt, the
\* floor at 0 not binding.
DrainStep ==
    /\ fc.afterburnerFuel > fuelThreshold
    /\ fc'.afterburnerFuel = fc.afterburnerFuel - afterburnerBurnRate * Dt
    /\ fc'.afterburnerFuel > 0
C24_TankNeverDry ==
    /\ [](fc.afterburnerFuel > fuelThreshold - afterburnerBurnRate * maxStep)
    /\ [][(Executed /\ last'.executed /\ fc'.afterburnerActive) => DrainStep]_vars

\* the step that just ended drained the tank to below the threshold
C24_Witness ==
    /\ last.executed
    /\ fc.afterburnerActive
    /\ fc.afterburnerFuel < fuelThreshold
    /\ fc.afterburnerFuel > 0

InstantG == GForceClamped(fc'.velocity, Before.prevVelocity, Axes(airplane'.quaternion).up, Dt)
GForceStep(g) ==
    /\ g >= -2 * U /\ g <= 9 * U
    /\ fc'.gForceSmoothed = damp(fc.gForceSmoothed, g, 6, Dt)
    /\ fc'.gForceSmoothed >= Min(fc.gForceSmoothed, g)
    /\ fc'.gForceSmoothed <= Max(fc.gForceSmoothed, g)
    /\ fc'.telemetry.gForce = fc'.gForceSmoothed
C26_GForceInRange ==
    /\ [](/\ fc.gForceSmoothed >= -2 * U /\ fc.gForceSmoothed <= 9 * U
          /\ fc.telemetry.gForce >= -2 * U /\ fc.telemetry.gForce <= 9 * U)
    /\ [][(Executed /\ last'.executed) => GForceStep(InstantG)]_vars

\* nine steps of full back stick at 0.05 s have taken the smoothed G-force
\* from 1 to above 8, which takes an instantaneous G-force held at the clamp
C26_Witness ==
    /\ pilot = "climb-idle"
    /\ tick <= 9
    /\ fc.gForceSmoothed > 8 * U
    /\ fc.telemetry.gForce = fc.gForceSmoothed

\* C27: after updateTerrain(terrain, playerPos) every particle is within
\* TERRAIN_SIZE / 2 of the player along x and along z, wherever the player
\* was put; a particle that moved has the height of the terrain at its new
\* (x, z); a particle that was within range along both axes is unchanged;
\* and the geometry is flagged for upload only if some particle moved.
InRange(q, playerPos) ==
    Abs(q.x - playerPos.x) <= halfTerrain /\ Abs(q.z - playerPos.z) <= halfTerrain
Paged(before, after, playerPos) ==
    /\ InRange(after, playerPos)
    /\ after # before => after.y = getTerrainHeight(noise.perm, after.x, after.z)
    /\ InRange(before, playerPos) => after = before
C27_TerrainPaging ==
    [][last'.op = "page"
         => /\ \A k \in DOMAIN terrain : Paged(terrain[k], terrain'[k], airplane'.position)
            /\ last'.needsUpdate => \E k \in DOMAIN terrain : terrain'[k] # terrain[k]]_vars

\* the player was put twelve fields to the east and four to the south: the
\* call flagged the geometry and every particle is around the player
C27_Witness ==
    /\ last.op = "page"
    /\ last.needsUpdate
    /\ airplane.position.x = 12345 * Metre + 5000
    /\ airplane.position.z = 4000 * Metre + 2500
    /\ \A k \in DOMAIN terrain : InRange(terrain[k], airplane.position)

\* C28: until Enter is pressed no keydown, keyup or mousemove changes the
\* inputs of the controller or the camera mode, and a frame does not update
\* the controller; isStarted, once true, stays true; startGame() a second
\* time changes nothing; a frame of the started game is one
\* controller.update(delta) of the state it found; and a mousemove changes
\* the stick only with the game started and the pointer locked.
Inputs(f) == <<f.throttle, f.yawInput, f.boost, f.stickX, f.stickY, f.cameraMode>>
BeforeStart ==
    /\ last'.op \in {"keydown", "keyup", "mousemove"}
           => Inputs(fc') = Inputs(fc) /\ main'.cameraMode = main.cameraMode
    /\ last'.op = "frame" => UNCHANGED <<program, heap, field, effects>>
AfterStart ==
    /\ main'.isStarted
    /\ (last'.op = "keydown" /\ last'.key = "Enter") => UNCHANGED <<main, program, effects>>
    /\ last'.op = "frame" => ResultIs(Step(fc, airplane, camera, StepOf(last'.delta)))
C28_GatedUntilStarted ==
    /\ [](startGame(startGame(World)) = startGame(World))
    /\ [][IF main.isStarted THEN AfterStart ELSE BeforeStart]_vars
    /\ [][(last'.op = "mousemove" /\ <<fc'.stickX, fc'.stickY>> # <<fc.stickX, fc.stickY>>)
              => main.isStarted /\ main.pointerLock]_vars

\* the page has rendered a frame and the throttle key was pressed, all before
\* Enter: the controller is as constructed
C28_Witness ==
    /\ ~main.isStarted
    /\ tick = 1
    /\ last.op = "keydown" /\ last.key = "w"
    /\ fc = InitController
    /\ airplane.position = Vec(0, 50 * Metre, 0)

\* C29: a call of updateSonarEffects ages every ring of the list by delta,
\* removes from the list and from the scene exactly those whose age has
\* reached maxAge, each once, and keeps the others in their order; after
\* every call each ring of the list is younger than maxAge.
Alive(ring) == ring.age < sonarMaxAge
Aged(list, delta) == [k \in 1 .. Len(list) |-> [list[k] EXCEPT !.age = @ + delta]]
Ids(list) == {list[k].id : k \in 1 .. Len(list)}
Removed(removed) == {removed[k] : k \in 1 .. Len(removed)}
Expired(list, delta) == {list[k].id : k \in {j \in 1 .. Len(list) : list[j].age + delta >= sonarMaxAge}}
SonarStep(e, delta) ==
    /\ effects'.activeSonarEffects = SelectSeq(Aged(e.activeSonarEffects, delta), Alive)
    /\ effects'.scene = e.scene \ Expired(e.activeSonarEffects, delta)
    /\ Removed(effects'.removed) = Removed(e.removed) \cup Expired(e.activeSonarEffects, delta)
    /\ Len(effects'.removed)
           = Len(e.removed) + Cardinality(Expired(e.activeSonarEffects, delta))
C29_SonarRingLifecycle ==
    /\ [](/\ \A k \in 1 .. Len(effects.activeSonarEffects) :
                Alive(effects.activeSonarEffects[k])
          /\ Ids(effects.activeSonarEffects) = effects.scene
          /\ Cardinality(Removed(effects.removed)) = Len(effects.removed)
          /\ Len(effects.activeSonarEffects) + Len(effects.removed) = effects.made)
    /\ [][(main.isStarted /\ last'.op = "frame") => SonarStep(effects, last'.delta.us)]_vars

\* the first ring has reached 3 s and was removed in that call; the second,
\* made later, is still in the list and in the scene
C29_Witness ==
    /\ last.op = "frame"
    /\ effects.removed = <<1>>
    /\ Len(effects.activeSonarEffects) = 1
    /\ effects.activeSonarEffects[1].id = 2
    /\ effects.activeSonarEffects[1].age > 0
    /\ effects.scene = {2}

\* the calls of noise2D that getTerrainHeight(x, z) makes: the six octaves of
\* fbm at x * 0.002 * frequency and the call at x * 0.001
NoiseCalls(x, z) ==
    {<<(x \div 5) * f, (z \div 5) * f>> : f \in {1, 2, 4, 8, 16, 32}}
    \cup {<<x \div 10, z \div 10>>}

\* ii, jj and i1 of noise2D(x, y)
MaskedCell(x, y) ==
    [ii |-> Masked((x + Skew(x, y)) \div Micro),
     jj |-> Masked((y + Skew(x, y)) \div Micro),
     i1 |-> IF (x + Skew(x, y)) % Micro > (y + Skew(x, y)) % Micro THEN 1 ELSE 0]

\* the indices of the reads this.perm[jj], this.perm[jj + j1], this.perm[jj + 1]
\* and of the reads around them
Inner(c) == {c.jj, c.jj + (1 - c.i1), c.jj + 1}
Outer(perm, c) ==
    {c.ii + perm[c.jj], c.ii + c.i1 + perm[c.jj + (1 - c.i1)], c.ii + 1 + perm[c.jj + 1]}

\* the calls of noise2D for the heights of the particles of the terrain
Samples ==
    UNION {NoiseCalls(terrain[k].x, terrain[k].z) : k \in DOMAIN terrain}

\* C30: every index noise2D uses to read the perm table lies in 0..511, for
\* every call made for the height of a particle, whatever the seed: the
\* indices jj, jj + j1 and jj + 1 of the inner reads are at most 256, the
\* indices ii + perm[..], ii + i1 + perm[..] and ii + 1 + perm[..] of the outer
\* reads are at most 511, and all of them are indices of the table of 512.
C30_PermIndicesInTable ==
    /\ DOMAIN noise.perm = 0 .. 511
    /\ \A c \in Samples :
          /\ Inner(MaskedCell(c[1], c[2])) \subseteq 0 .. 256
          /\ Outer(noise.perm, MaskedCell(c[1], c[2])) \subseteq 0 .. 511

\* after the terrain was paged, one call reads perm[256] (jj = 255), one reads
\* the upper half of the table through an outer index, and one is made at
\* negative coordinates
C30_Witness ==
    /\ last.op = "page"
    /\ \E c \in Samples : 256 \in Inner(MaskedCell(c[1], c[2]))
    /\ \E c \in Samples : \E o \in Outer(noise.perm, MaskedCell(c[1], c[2])) : o > 400
    /\ \E c \in Samples : c[1] < 0 /\ c[2] < 0
====
